---- MODULE Spec2Model ----
(***************************************************************************)
(* Options-Hub: the GEX/DEX strike-matrix pipeline.                        *)
(*                                                                         *)
(* The store (state/store.js), the matrix projection                       *)
(* selectors.selectMatrixData (state/selectors.js), the normalization      *)
(* strategies and the legacy matrix selector (components/matrix), and the  *)
(* handlers that write to the store and re-project the matrix.             *)
(*                                                                         *)
(* Encodings.  Expiry keys are ISO date strings in the program; they are   *)
(* encoded by their rank 1..MaxExpiry, which keeps both === and the        *)
(* string order used by sort() and <=.  null is NoExpiry.  Exposure        *)
(* values are integers; a quotient a/b that JavaScript computes in         *)
(* floating point is kept as the exact pair (n, d), with d = 0 standing    *)
(* for the IEEE results NaN (0/0) and -Infinity/+Infinity (n/0).           *)
(***************************************************************************)
EXTENDS Integers, Sequences, FiniteSets, TLC

VARIABLES
    state,        \* the store's state object (store.js `let state`)
    projection,   \* outcome of selectMatrixData in the last mount/update of the gexMatrix block
    call,         \* last direct call of a function: a normalization strategy, a matrix
                  \* selector, or the matrix renderer
    listeners,    \* store.js `const listeners = new Set()`, in insertion order
    round,        \* the last store.setState call as its caller and its listeners saw it
    inflight,     \* App.refreshData calls awaiting apiClient.fetchAllMarketData()
    refresh,      \* the last App.refreshData call that ran to its end
    page,         \* pageRenderer, the block containers of its root and the pending
                  \* animation-frame callbacks
    responseCache,\* server/cache/memory.js `const responseCache = new Map()`
    now,          \* Date.now() of the server process
    pending,      \* requests of the server awaiting their database query
    cacheLog,     \* the requests received so far and the latest cacheSet of each key
    listen        \* the tryListen call of server.js

vars == <<state, projection, call, listeners, round, inflight, refresh, page,
         responseCache, now, pending, cacheLog, listen>>

storeVars   == <<listeners, round>>
refreshVars == <<inflight, refresh>>
serverVars  == <<responseCache, now, pending, cacheLog, listen>>
restVars    == <<page, serverVars>>
clientVars  == <<state, projection, listeners, round, inflight, refresh, page>>

---------------------------------------------------------------------------
(* Bounds of the model *)

MaxStrike == 2
MaxExpiry == 2
MaxVal    == 1
MaxRows   == 2
MaxPrice  == 2
MaxDomain == 2

Strikes  == 1..MaxStrike
Expiries == 1..MaxExpiry
Vals     == (-MaxVal)..MaxVal
Prices   == 1..MaxPrice

\* selectedExpiry: null  (store.js: `selectedExpiry: null`)
NoExpiry == 0

---------------------------------------------------------------------------
(* Generic helpers (JavaScript built-ins) *)

Abs(x) == IF x < 0 THEN -x ELSE x

\* Math.sign
Sign(x) == IF x > 0 THEN 1 ELSE IF x < 0 THEN -1 ELSE 0

Max2(a, b) == IF a >= b THEN a ELSE b

SetMax(S) == CHOOSE m \in S : \A y \in S : y <= m
SetMin(S) == CHOOSE m \in S : \A y \in S : m <= y

RECURSIVE SortDesc(_)
\* [...set].sort((a, b) => b - a)
SortDesc(S) == IF S = {} THEN <<>> ELSE <<SetMax(S)>> \o SortDesc(S \ {SetMax(S)})

RECURSIVE SortAsc(_)
\* [...set].sort()
SortAsc(S) == IF S = {} THEN <<>> ELSE <<SetMin(S)>> \o SortAsc(S \ {SetMin(S)})

Range(s) == {s[i] : i \in DOMAIN s}

RECURSIVE SumSeq(_)
\* items.reduce((sum, item) => sum + x, 0) over a sequence of numbers
SumSeq(s) == IF s = <<>> THEN 0 ELSE s[1] + SumSeq(Tail(s))


RECURSIVE Pow(_, _)
Pow(b, e) == IF e = 0 THEN 1 ELSE b * Pow(b, e - 1)

---------------------------------------------------------------------------
(* Numbers that are not integers *)

\* n / d as JavaScript evaluates it on two integers; d = 0 gives NaN (0/0) or an
\* infinity of the sign of n
Quot(n, d) == IF d < 0 THEN [k |-> "q", n |-> -n, d |-> -d] ELSE [k |-> "q", n |-> n, d |-> d]

Zero == Quot(0, 1)
One  == Quot(1, 1)

\* (log10(v+1) - log10(lo+1)) / (log10(hi+1) - log10(lo+1)), kept symbolic; built
\* only for v, lo, hi >= 0 and hi # lo, where every logarithm is finite
LogQuot(v, lo, hi) == [k |-> "log", v |-> v, lo |-> lo, hi |-> hi]

\* x < 0.  log10 is strictly increasing, so the sign of a difference of logarithms
\* is the sign of the difference of their arguments.
IsNegative(x) ==
    IF x.k = "q" THEN x.n < 0
    ELSE (x.v < x.lo /\ x.hi > x.lo) \/ (x.v > x.lo /\ x.hi < x.lo)

\* x > 1
ExceedsOne(x) ==
    IF x.k = "q" THEN (x.d > 0 /\ x.n > x.d) \/ (x.d = 0 /\ x.n > 0)
    ELSE (x.hi > x.lo /\ x.v > x.hi) \/ (x.hi < x.lo /\ x.v < x.hi)

IsNaN(x) == x.k = "q" /\ x.d = 0 /\ x.n = 0

\* 0 <= x <= 1 as a comparison of IEEE numbers (false for NaN)
InUnit(x) == ~IsNaN(x) /\ ~IsNegative(x) /\ ~ExceedsOne(x)

\* 0 <= q <= 100 for an exact quotient
InPercent(q) == q.d > 0 /\ 0 <= q.n /\ q.n <= 100 * q.d

\* Math.max(0, Math.min(1, x)); both built-ins return NaN for NaN
Clamp01(x) ==
    IF IsNaN(x) THEN x
    ELSE IF ExceedsOne(x) THEN One
    ELSE IF IsNegative(x) THEN Zero
    ELSE IF x.k = "log" /\ x.v = x.lo THEN Zero
    ELSE IF x.k = "log" /\ x.v = x.hi THEN One
    ELSE x

---------------------------------------------------------------------------
(* Normalization strategies: const STRATEGIES of the matrix selectors module *)

StrategyNames == {"linear", "log", "percentile"}

\* as if the degenerate domain were not tested: no `if (max === min) return 0`
linear_NoDegenerateTest(val, min, max) == Clamp01(Quot(val - min, max - min))

\* STRATEGIES.linear
linear(val, min, max) ==
    IF max = min THEN Zero
    ELSE Clamp01(Quot(val - min, max - min))

\* STRATEGIES.log
log(val, min, max) ==
    IF val <= 0 THEN Zero
    ELSE IF max = min THEN Zero          \* logMax === logMin
    ELSE Clamp01(LogQuot(val, min, max))

\* Array.prototype.indexOf, zero-based, -1 when absent
IndexOf(s, v) ==
    IF \E i \in DOMAIN s : s[i] = v
    THEN SetMin({i \in DOMAIN s : s[i] = v}) - 1
    ELSE -1

\* STRATEGIES.percentile
percentile(val, sortedValues) ==
    IF Len(sortedValues) = 0 THEN Zero
    ELSE Quot(IndexOf(sortedValues, val), Len(sortedValues) - 1)

\* STRATEGIES[strategy](val, min, max) for the two range strategies
ApplyRange(strategy, val, min, max) ==
    IF strategy = "linear" THEN linear(val, min, max) ELSE log(val, min, max)

---------------------------------------------------------------------------
(* The store: state/store.js *)

\* One (strike, expiry) row of a chain as the API delivers it.  A field the row
\* does not carry is 0: `item.f || ...` cannot tell a missing field from 0.
MkRow(strike, expiry, net_gex, gex, net_dex, dex, net_oi, call_oi, put_oi) ==
    [strike |-> strike, expiry |-> expiry,
     net_gex |-> net_gex, gex |-> gex, net_dex |-> net_dex, dex |-> dex,
     net_oi |-> net_oi, call_oi |-> call_oi, put_oi |-> put_oi]

\* Rows of the per-strike exposure feed: net gamma v, net delta -2v (in the `dex`
\* column), net open interest v split into calls (v > 0) and puts (v < 0) ...
FeedRow(k, e, v) ==
    MkRow(k, e, v, 0, 0, -2 * v, v, IF v > 0 THEN v ELSE 0, IF v < 0 THEN -v ELSE 0)

\* ... and rows that carry gamma only in the `gex` column (net_gex absent)
GexOnlyRow(k, e) == MkRow(k, e, 0, MaxVal, MaxVal, 0, MaxVal, MaxVal, 0)

RowSet ==
    {FeedRow(k, e, v) : k \in Strikes, e \in Expiries, v \in Vals}
        \cup {GexOnlyRow(k, e) : k \in Strikes, e \in Expiries}

SeqsUpTo(S, n) == UNION {[1..m -> S] : m \in 0..n}

\* The chains a refresh can deliver
Chains == SeqsUpTo(RowSet, MaxRows)

\* gexMode values: the two modes of the mode buttons, '' (falsy) and a string the
\* selector does not know
KnownModes == {"single", "cumulative"}
Modes      == KnownModes \cup {"", "all"}

\* createEmptyAssetData(), reduced to the fields the matrix pipeline reads
EmptyAssetData == [present |-> TRUE, chain |-> <<>>, underlying_price |-> 0]

\* state.data[key] === undefined
Undefined == [present |-> FALSE, chain |-> <<>>, underlying_price |-> 0]

\* The tickers of the model: two of the six crypto symbols of the store
Tickers == {"BTCUSDT", "ETHUSDT"}

\* symbolKey.replace('USDT', '').toUpperCase()
NormalizedKey(symbolKey) == IF symbolKey = "BTCUSDT" THEN "BTC"
                            ELSE IF symbolKey = "ETHUSDT" THEN "ETH" ELSE symbolKey

DataKeys == Tickers \cup {NormalizedKey(symbolKey) : symbolKey \in Tickers}

\* initialExchangeData.bybit.assets, reduced to the price of each asset; the key
\* is asset.symbol.split('/')[0].toUpperCase()
InitialExchangeData == [symbolKey \in {"BTC", "ETH"} |-> 0]

\* `let state = {...}` of the store module
InitialState ==
    [data           |-> [key \in DataKeys |-> IF key \in Tickers THEN EmptyAssetData ELSE Undefined],
     exchangeData   |-> InitialExchangeData,
     activeTicker   |-> "BTCUSDT",
     gexMode        |-> "single",
     selectedExpiry |-> NoExpiry]

\* store.setState, the merge: state = { ...state, ...newData }
Merge(st, newData) ==
    [key \in DOMAIN st |-> IF key \in DOMAIN newData THEN newData[key] ELSE st[key]]

\* `if (newData.data) { state.exchangeData.bybit.assets.forEach(...) }`: the price
\* of every asset whose symbol key has an entry in state.data is overwritten
\* with assetData.spotPrice || assetData.price || 0
SyncExchangeData(st, newData) ==
    IF "data" \notin DOMAIN newData THEN st
    ELSE [st EXCEPT !.exchangeData =
             [symbolKey \in DOMAIN st.exchangeData |->
                 IF st.data[symbolKey].present
                 THEN st.data[symbolKey].underlying_price
                 ELSE st.exchangeData[symbolKey]]]

---------------------------------------------------------------------------
(* The matrix projection: selectors.selectMatrixData (state/selectors.js) *)

Symbols == {"", "BTCUSDT", "BTC"}

\* symbol.replace('USDT', '').toUpperCase()
StripUSDT(symbol) == NormalizedKey(symbol)

\* const baseSymbol = symbol ? ... : state.activeTicker
BaseSymbol(st, symbol) == IF symbol # "" THEN StripUSDT(symbol) ELSE st.activeTicker

\* parseFloat(item.net_gex || item.gex || 0)
RowGex(item) == IF item.net_gex # 0 THEN item.net_gex ELSE item.gex

\* parseFloat(item.net_dex || item.dex || 0)
RowDex(item) == IF item.net_dex # 0 THEN item.net_dex ELSE item.dex

ChainExpiries(chain) == {chain[i].expiry : i \in DOMAIN chain}
ChainStrikes(chain)  == {chain[i].strike : i \in DOMAIN chain}

\* const mode = state.gexMode || 'single'
ModeOf(st) == IF st.gexMode = "" THEN "single" ELSE st.gexMode

\* const targetExpiry = state.selectedExpiry || [...new Set(...)].sort()[0]
\* ([].sort()[0] is undefined, which NoExpiry stands for as well)
TargetExpiry(st, chain) ==
    IF st.selectedExpiry # NoExpiry THEN st.selectedExpiry
    ELSE IF chain = <<>> THEN NoExpiry
    ELSE SetMin(ChainExpiries(chain))

\* the predicate of data.chain.filter(...)
KeepRow(mode, targetExpiry, item) ==
    IF mode = "single" THEN item.expiry = targetExpiry
    ELSE IF mode = "cumulative" THEN item.expiry <= targetExpiry
    ELSE TRUE

FilterChain(chain, mode, targetExpiry) ==
    SelectSeq(chain, LAMBDA item : KeepRow(mode, targetExpiry, item))

\* the floor at 0 instead of 1: Math.max(...values, 0)
MaxOrOne_FloorZero(values) == SetMax(values \cup {0})

\* Math.max(...values, 1)
MaxOrOne(values) == SetMax(values \cup {1})

\* Math.ceil(x * 10) of an intensity; for a logarithmic quotient with lo < v < hi
\* it is the least L with (hi+1)^L * (lo+1)^10 >= (v+1)^10 * (lo+1)^L
Level(x) ==
    IF x.k = "q"
    THEN IF x.d = 0 THEN x ELSE Quot(-((-(10 * x.n)) \div x.d), 1)
    ELSE Quot(SetMin({L \in 0..10 :
                 Pow(x.hi + 1, L) * Pow(x.lo + 1, 10) >= Pow(x.v + 1, 10) * Pow(x.lo + 1, L)}), 1)

\* The summed raw values of one strike: the five reduce() calls
StrikeSums(filteredChain, strike) ==
    LET strikeItems == SelectSeq(filteredChain, LAMBDA item : item.strike = strike)
    IN  [gex    |-> SumSeq([i \in DOMAIN strikeItems |-> RowGex(strikeItems[i])]),
         dex    |-> SumSeq([i \in DOMAIN strikeItems |-> RowDex(strikeItems[i])]),
         netOi  |-> SumSeq([i \in DOMAIN strikeItems |-> strikeItems[i].net_oi]),
         callOi |-> SumSeq([i \in DOMAIN strikeItems |-> strikeItems[i].call_oi]),
         putOi  |-> SumSeq([i \in DOMAIN strikeItems |-> strikeItems[i].put_oi])]

\* maxVals after the strikes.forEach: Math.max(...rawValues.x, 1)
MaxVals(filteredChain, strikes) ==
    LET sums(i) == StrikeSums(filteredChain, strikes[i])
    IN  [gex   |-> MaxOrOne({Abs(sums(i).gex) : i \in DOMAIN strikes}),
         dex   |-> MaxOrOne({Abs(sums(i).dex) : i \in DOMAIN strikes}),
         netOi |-> MaxOrOne({Abs(sums(i).netOi) : i \in DOMAIN strikes}),
         oi    |-> MaxOrOne({Max2(sums(i).callOi, sums(i).putOi) : i \in DOMAIN strikes})]

\* One finished cell: the object built in strikes.forEach and completed in
\* Object.keys(cells).forEach
Cell(filteredChain, strike, expiry, maxVals) ==
    LET v    == StrikeSums(filteredChain, strike)
        gexI == log(Abs(v.gex), 0, maxVals.gex)
        dexI == log(Abs(v.dex), 0, maxVals.dex)
    IN  [gex    |-> [value |-> v.gex, sign |-> Sign(v.gex), intensity |-> gexI,
                     level |-> Level(gexI), width |-> Quot(Abs(v.gex) * 100, maxVals.gex)],
         dex    |-> [value |-> v.dex, sign |-> Sign(v.dex), intensity |-> dexI,
                     level |-> Level(dexI), width |-> Quot(Abs(v.dex) * 100, maxVals.dex)],
         netOi  |-> [value |-> v.netOi, sign |-> Sign(v.netOi),
                     width |-> Quot(Abs(v.netOi) * 100, maxVals.netOi)],
         callOi |-> [value |-> v.callOi, width |-> Quot(v.callOi * 100, maxVals.oi)],
         putOi  |-> [value |-> v.putOi, width |-> Quot(v.putOi * 100, maxVals.oi)],
         strike |-> strike,
         expiry |-> expiry]

\* let maxNetGexValue = -Infinity, minNetGexValue = Infinity, max...Strike = 0
ScanStart ==
    [maxIsInf |-> TRUE, maxNetGexValue |-> 0, maxCallGexStrike |-> 0,
     minIsInf |-> TRUE, minNetGexValue |-> 0, maxPutGexStrike |-> 0]

\* the two `if`s at the end of one iteration of Object.keys(cells).forEach
ScanStep(acc, cell) ==
    LET a == IF acc.maxIsInf \/ cell.gex.value > acc.maxNetGexValue
             THEN [acc EXCEPT !.maxIsInf = FALSE, !.maxNetGexValue = cell.gex.value,
                              !.maxCallGexStrike = cell.strike]
             ELSE acc
    IN  IF a.minIsInf \/ cell.gex.value < a.minNetGexValue
        THEN [a EXCEPT !.minIsInf = FALSE, !.minNetGexValue = cell.gex.value,
                       !.maxPutGexStrike = cell.strike]
        ELSE a

RECURSIVE ScanCells(_, _, _)
\* Object.keys(cells) lists the keys in insertion order, i.e. in the order of `strikes`
ScanCells(cellSeq, i, acc) ==
    IF i > Len(cellSeq) THEN acc
    ELSE ScanCells(cellSeq, i + 1, ScanStep(acc, cellSeq[i]))

\* The identifiers selectors.js binds: its one import, its two helper functions
\* and its export.  STRATEGIES is a module-private const of the matrix selectors
\* module and no global.
SelectorsScope == {"store", "normalizeSymbol", "formatValue", "selectors"}

Null == [kind |-> "null"]

\* An exception leaving the function
Threw(error) == [kind |-> "threw", error |-> error]

\* a guard that gives up on every input: `return null` unconditionally
NoRows_AlwaysNull(data) == TRUE

\* the guard without its length test: `if (!data || !data.chain) return null`
NoRows_NoLengthTest(data) == ~data.present

\* !data || !data.chain || !data.chain.length
NoRows(data) == ~data.present \/ Len(data.chain) = 0

selectMatrixData(st, symbol) ==
    LET data == st.data[BaseSymbol(st, symbol)]
    IN  IF NoRows(data) THEN Null
        ELSE
        LET mode          == ModeOf(st)
            targetExpiry  == TargetExpiry(st, data.chain)
            filteredChain == FilterChain(data.chain, mode, targetExpiry)
            strikes       == SortDesc(ChainStrikes(filteredChain))
            expiries      == SortAsc(ChainExpiries(filteredChain))
            maxVals       == MaxVals(filteredChain, strikes)
            cellSeq       == [i \in DOMAIN strikes |->
                                 Cell(filteredChain, strikes[i], expiries[1], maxVals)]
            scan          == ScanCells(cellSeq, 1, ScanStart)
        IN  \* the first iteration of Object.keys(cells).forEach evaluates STRATEGIES
            IF Len(strikes) > 0 /\ "STRATEGIES" \notin SelectorsScope
            THEN Threw("ReferenceError")
            ELSE [kind         |-> "snapshot",
                  ticker       |-> IF symbol # "" THEN symbol ELSE st.activeTicker,
                  spotPrice    |-> data.underlying_price,
                  strikes      |-> strikes,
                  expiries     |-> expiries,
                  targetExpiry |-> targetExpiry,
                  mode         |-> mode,
                  cells        |-> [key \in {<<strikes[i], expiries[1]>> : i \in DOMAIN strikes} |->
                                       Cell(filteredChain, key[1], key[2], maxVals)],
                  maxVals      |-> maxVals,
                  keyLevels    |-> [resistance |-> scan.maxCallGexStrike,
                                    support    |-> scan.maxPutGexStrike]]

---------------------------------------------------------------------------
(* The handlers that write to the store.  store.setState notifies its listeners
   before it returns; the listener of pageRenderer runs updatePage, which
   resolves the ctx of every block of the page from the new state. *)

\* The layout item of the gexMatrix block on the crypto page
MatrixTicker == "BTCUSDT"

\* resolveData for the gexMatrix block: ctx.data = selectMatrixData(state, ticker)
ResolveMatrix(st) == selectMatrixData(st, MatrixTicker)

NoCall == [kind |-> "none"]

\* The listeners of the running page: headerRenderer.init subscribes the header's
\* render, pageRenderer.initPage the page update, matrixRenderer.init the matrix
\* component's refresh
PageListener == "page"
ListenerIds  == {"header", PageListener, "matrix"}

\* App.init: headerRenderer.init(), then pageRenderer.initPage(pages.crypto, root)
InitialListeners == <<"header", PageListener>>

NoRound   == [kind |-> "none"]
NoRefresh == [kind |-> "none"]

\* No App.refreshData call has started
NoRequests == [started |-> 0, pending |-> {}, done |-> <<>>]

\* store.setState(newData) with the page listener subscribed
SetState(newData) ==
    /\ state' = SyncExchangeData(Merge(state, newData), newData)
    /\ projection' = ResolveMatrix(state')

\* App.refreshData, a fetch that delivered a latest record for BTCUSDT:
\* transformApiData, then `if (payload.chain) newData[key].chain = payload.chain`
RefreshData(hasChain, chain, price) ==
    LET key      == StripUSDT("BTCUSDT")
        prevData == state.data[key]
        asset    == [present |-> TRUE,
                     chain |-> IF hasChain THEN chain ELSE prevData.chain,
                     underlying_price |-> price]
    IN  /\ SetState([data |-> [state.data EXCEPT ![key] = asset]])
        /\ UNCHANGED <<call, storeVars, refreshVars, restVars>>

\* selectors.selectGexTableData, reduced to what the gexTable block renders
\* controls from: null, or the expirations of the chain
selectGexTableData(st, symbol) ==
    LET data == st.data[BaseSymbol(st, symbol)]
    IN  IF ~data.present \/ Len(data.chain) = 0 THEN Null
        ELSE [kind           |-> "table",
              expirations    |-> SortAsc(ChainExpiries(data.chain)),
              currentMode    |-> ModeOf(st),
              selectedExpiry |-> TargetExpiry(st, data.chain)]

\* gexTable block, click on a .mode-btn: store.setState({ gexMode: mode }).  The
\* buttons exist when the block was rendered from a non-null ctx.data.
ClickMode(mode) ==
    /\ selectGexTableData(state, MatrixTicker) # Null
    /\ SetState([gexMode |-> mode])
    /\ UNCHANGED <<call, storeVars, refreshVars, restVars>>

\* gexTable block, click on an .expiry-item; the items are the expiries of the
\* ticker's chain (selectGexTableData)
ClickExpiry(expiry) ==
    /\ selectGexTableData(state, MatrixTicker) # Null
    /\ expiry \in Range(selectGexTableData(state, MatrixTicker).expirations)
    /\ SetState([selectedExpiry |-> expiry])
    /\ UNCHANGED <<call, storeVars, refreshVars, restVars>>

\* store.setState({ gexMode: m }) by any other caller of the exported store
SetGexMode(mode) ==
    /\ SetState([gexMode |-> mode])
    /\ UNCHANGED <<call, storeVars, refreshVars, restVars>>

---------------------------------------------------------------------------
(* The pages: core/pageConfig.js, core/pageLoader.js, the pageRenderer of
   core/fragmentLoader.js and the blocks they mount *)

\* A layout item of pageConfig.js: the block id and the ticker ("" when absent)
Item(id, ticker) == [id |-> id, ticker |-> ticker]

\* pages.crypto.layout and pages['ru-market'].layout
PageLayout(pageId) ==
    IF pageId = "crypto"
    THEN <<Item("priceComparison", "BTCUSDT"), Item("pcRatio", "BTCUSDT"),
           Item("greeks", "BTCUSDT"), Item("maxPain", "BTCUSDT"),
           Item("gexTable", "BTCUSDT"), Item("gexMatrix", "BTCUSDT")>>
    ELSE IF pageId = "ru-market"
    THEN <<Item("metric", ""), Item("metric", ""),
           Item("priceComparison", "IMOEX"), Item("priceComparison", "USDRUB"),
           Item("volatilitySmile", "IMOEX"), Item("gexTable", "IMOEX"),
           Item("gexMatrix", "IMOEX")>>
    ELSE <<>>

PageIds == {"crypto", "ru-market"}
NoPage  == "null"

\* blocks/index.js: the blocks registered by the imports of the entry point
RegisteredBlocks ==
    {"gexMatrix", "gexTable", "greeks", "maxPain", "pcRatio", "volatilitySmile",
     "priceComparison", "metric"}

\* getBlock(id) of core/blockRegistry.js: the definition registered under the id,
\* undefined for any other value
NoBlock == "undefined"
getBlock(id) == IF id \in RegisteredBlocks THEN id ELSE NoBlock

\* item.block: the layout items have no such property
ItemBlock(item) == NoBlock

\* ctx.data of a block other than gexMatrix
OtherData == [kind |-> "other"]

\* The ctx around the data of a selector, or the exception of the selector
AsCtx(data) == IF data.kind = "threw" THEN data ELSE [kind |-> "ctx", data |-> data]

\* item.ticker || state.activeTicker
ItemTicker(item, st) == IF item.ticker # "" THEN item.ticker ELSE st.activeTicker

\* resolveData(blockDef, item, state): the ctx, or the exception of the selector
resolveData(blockDef, item, st) ==
    IF blockDef # "gexMatrix" THEN [kind |-> "ctx", data |-> OtherData]
    ELSE IF BaseSymbol(st, ItemTicker(item, st)) \notin DOMAIN st.data
    THEN [kind |-> "ctx", data |-> Null]
    ELSE AsCtx(selectMatrixData(st, ItemTicker(item, st)))

\* document.createElement('div'), className = 'mod-block-container'
NewContainer(id, item) ==
    [id |-> id, item |-> item, life |-> "created", html |-> [kind |-> "empty"],
     renderedItem |-> 0, hasInitialScroll |-> FALSE, scrolls |-> 0]

\* What a mount or an update of a block leaves in the container.  gexMatrix:
\* renderBlock; the other blocks: their render
Rendered(blockDef, ctx) ==
    IF blockDef # "gexMatrix" THEN [kind |-> "block", block |-> blockDef]
    ELSE IF ctx.data.kind = "null" THEN [kind |-> "matrix-empty"]
    ELSE [kind |-> "matrix", strikes |-> ctx.data.strikes, spotPrice |-> ctx.data.spotPrice]

\* renderBlock of gexMatrix: requestAnimationFrame is called when ctx.data is
\* not null and container.dataset.hasInitialScroll is not set
SchedulesScroll(blockDef, container, ctx) ==
    blockDef = "gexMatrix" /\ ctx.data.kind # "null" /\ ~container.hasInitialScroll

\* blockDef.mount(container, ctx) and blockDef.update(container, ctx)
BlockRender(op, blockDef, container, item, ctx) ==
    [container EXCEPT !.life = IF op = "mount" THEN "mounted" ELSE "updated",
                      !.html = Rendered(blockDef, ctx),
                      !.renderedItem = item]

\* A lifecycle call as the page made it: the container, the layout item it was
\* made with and the lifecycle of the container before the call
LifecycleCall(op, container, item) ==
    [op |-> op, container |-> container.id, item |-> item, was |-> container.life]

\* The result of loadPage or updatePage so far
PageRun(root, frames, calls, threw) ==
    [root |-> root, frames |-> frames, log |-> calls, threw |-> threw]

\* One layout item of loadPage: no container for a block that is not
\* registered; the container is appended before resolveData and mount run
MountItem(run, i, blockDef, container, ctx) ==
    IF blockDef = NoBlock THEN run
    ELSE IF ctx.kind = "threw"
    THEN PageRun(Append(run.root, container), run.frames, run.log, TRUE)
    ELSE PageRun(Append(run.root, BlockRender("mount", blockDef, container, i, ctx)),
                 IF SchedulesScroll(blockDef, container, ctx)
                 THEN Append(run.frames, container.id) ELSE run.frames,
                 Append(run.log, LifecycleCall("mount", container, i)),
                 FALSE)

RECURSIVE LoadItems(_, _, _, _, _)
\* pageConfig.layout.forEach(item => { ... }) of loadPage
LoadItems(layout, i, st, generation, run) ==
    IF i > Len(layout) \/ run.threw THEN run
    ELSE LoadItems(layout, i + 1, st, generation,
                   MountItem(run, i, getBlock(layout[i].id),
                             NewContainer(<<generation, Len(run.root) + 1>>, i),
                             resolveData(getBlock(layout[i].id), layout[i], st)))

\* loadPage(pageConfig, root, state): root.innerHTML = '', then the layout.  The
\* function is async: an exception ends it and rejects its promise
loadPage(layout, st, generation, frames) ==
    LoadItems(layout, 1, st, generation, PageRun(<<>>, frames, <<>>, FALSE))

\* One container of updatePage, with the layout item of its index
UpdateItem(run, idx, blockDef, container, ctx) ==
    IF blockDef = NoBlock THEN run
    ELSE IF ctx.kind = "threw"
    THEN PageRun(run.root, run.frames, run.log, TRUE)
    ELSE PageRun([run.root EXCEPT ![idx] = BlockRender("update", blockDef, container, idx, ctx)],
                 IF SchedulesScroll(blockDef, container, ctx)
                 THEN Append(run.frames, container.id) ELSE run.frames,
                 Append(run.log, LifecycleCall("update", container, idx)),
                 FALSE)

RECURSIVE UpdateContainers(_, _, _, _)
\* containers.forEach((container, idx) => { ... }) of updatePage
UpdateContainers(layout, idx, st, run) ==
    IF idx > Len(run.root) \/ run.threw THEN run
    ELSE UpdateContainers(layout, idx + 1, st,
                          UpdateItem(run, idx, getBlock(layout[idx].id), run.root[idx],
                                     resolveData(getBlock(layout[idx].id), layout[idx], st)))

\* updatePage(pageConfig, root, state)
updatePage(layout, root, st, frames) ==
    UpdateContainers(layout, 1, st, PageRun(root, frames, <<>>, FALSE))

RECURSIVE UnmountBlocks(_, _, _)
\* blocks.forEach((container, idx) => { ... }) of pageRenderer.cleanup
UnmountBlocks(layout, idx, run) ==
    IF idx > Len(run.root) THEN run
    ELSE LET blockDef  == getBlock(ItemBlock(layout[idx]))
             container == run.root[idx]
         IN  IF blockDef = NoBlock THEN UnmountBlocks(layout, idx + 1, run)
             ELSE UnmountBlocks(layout, idx + 1,
                      PageRun([run.root EXCEPT ![idx] =
                                  [container EXCEPT !.life = "unmounted",
                                                    !.html = [kind |-> "empty"]]],
                              run.frames,
                              Append(run.log, LifecycleCall("unmount", container, idx)),
                              FALSE))

\* pageRenderer before the first initPage
NoPageRenderer ==
    [activePageConfig |-> NoPage, unsubscribe |-> 0, subscriptions |-> {},
     generation |-> 0, root |-> <<>>, removed |-> <<>>, frames |-> <<>>,
     op |-> "none", log |-> <<>>]

\* A cleanup that forgets the subscription without calling this._unsubscribe()
cleanup_KeepsSubscription(pr) ==
    LET run == IF pr.activePageConfig # NoPage
               THEN UnmountBlocks(PageLayout(pr.activePageConfig), 1,
                                  PageRun(pr.root, pr.frames, <<>>, FALSE))
               ELSE PageRun(<<>>, pr.frames, <<>>, FALSE)
    IN  [pr EXCEPT !.unsubscribe = 0,
                   !.activePageConfig = NoPage,
                   !.root = <<>>,
                   !.removed = run.root,
                   !.op = "cleanup",
                   !.log = run.log]

\* pageRenderer.cleanup()
cleanup(pr) ==
    LET run == IF pr.activePageConfig # NoPage
               THEN UnmountBlocks(PageLayout(pr.activePageConfig), 1,
                                  PageRun(pr.root, pr.frames, <<>>, FALSE))
               ELSE PageRun(<<>>, pr.frames, <<>>, FALSE)
    IN  [pr EXCEPT !.subscriptions = IF pr.unsubscribe # 0 THEN @ \ {pr.unsubscribe} ELSE @,
                   !.unsubscribe = 0,
                   !.activePageConfig = NoPage,
                   !.root = <<>>,
                   !.removed = run.root,
                   !.op = "cleanup",
                   !.log = run.log]

\* The end of initPage: this._unsubscribe = store.subscribe(...) after loadPage
Subscribed(clean, pageId, generation, run) ==
    [clean EXCEPT !.activePageConfig = pageId,
                  !.generation = generation,
                  !.root = run.root,
                  !.frames = run.frames,
                  !.unsubscribe = generation,
                  !.subscriptions = @ \cup {generation},
                  !.op = "initPage",
                  !.log = clean.log \o run.log]

\* initPage after its cleanup: the page is set and loadPage mounts it
Mounted(clean, pageId, st, generation) ==
    Subscribed(clean, pageId, generation,
               loadPage(PageLayout(pageId), st, generation, clean.frames))

\* pageRenderer.initPage(pageConfig, root)
initPage(pr, pageId, st) == Mounted(cleanup(pr), pageId, st, pr.generation + 1)

\* App.init: pageRenderer.initPage(pages.crypto, matrixRoot) in the initial state
InitialPage == initPage(NoPageRenderer, "crypto", InitialState)

---------------------------------------------------------------------------
(* The server process before its first request *)

\* new Map()
EmptyCache == <<>>

\* No request received, no cacheSet made
NoCacheLog == [requests |-> 0, latest |-> <<>>]

\* tryListen not called yet
NotListening == [status |-> "none"]

---------------------------------------------------------------------------
(* The running application *)

Init ==
    /\ state = InitialState
    /\ projection = ResolveMatrix(InitialState)     \* loadPage: mount with the initial state
    /\ call = NoCall
    /\ listeners = InitialListeners
    /\ round = NoRound
    /\ inflight = NoRequests
    /\ refresh = NoRefresh
    /\ page = InitialPage
    /\ responseCache = EmptyCache
    /\ now = 0
    /\ pending = {}
    /\ cacheLog = NoCacheLog
    /\ listen = NotListening

Next ==
    \/ \E chain \in Chains, price \in Prices : RefreshData(TRUE, chain, price)
    \/ \E price \in Prices : RefreshData(FALSE, <<>>, price)
    \/ \E mode \in KnownModes : ClickMode(mode)
    \/ \E expiry \in Expiries : ClickExpiry(expiry)
    \/ \E mode \in Modes \ KnownModes : SetGexMode(mode)

Spec == Init /\ [][Next]_vars

---------------------------------------------------------------------------
(* The matrix selectors module: matrixSelectors.selectMatrixData *)

\* Rows with the two columns this selector reads, `gex` and `dex`
LegacyRow(k, e, g) == MkRow(k, e, 0, g, 0, 2 * g, 0, 0, 0)

LegacyRowSet == {LegacyRow(k, e, g) : k \in Strikes, e \in Expiries, g \in Vals}

LegacyChains == SeqsUpTo(LegacyRowSet, MaxRows)

\* options.strategy; '' stands for an options object without the field
StrategyOptions == StrategyNames \cup {""}

\* cells[key] after chain.forEach: a later row of the same key replaces the cell
LastRowOf(chain, key) ==
    chain[SetMax({i \in DOMAIN chain : <<chain[i].strike, chain[i].expiry>> = key})]

\* gexValues / dexValues: one push per row that passes the `if`
PositiveGex(chain) == LET kept == SelectSeq(chain, LAMBDA item : item.gex > 0)
                      IN  [i \in DOMAIN kept |-> kept[i].gex]
NonZeroDex(chain) == LET kept == SelectSeq(chain, LAMBDA item : Abs(item.dex) > 0)
                     IN  [i \in DOMAIN kept |-> Abs(kept[i].dex)]

RECURSIVE Insert(_, _)
Insert(sorted, v) ==
    IF sorted = <<>> THEN <<v>>
    ELSE IF v <= sorted[1] THEN <<v>> \o sorted
    ELSE <<sorted[1]>> \o Insert(Tail(sorted), v)

RECURSIVE SortNumeric(_)
\* [...values].sort((a, b) => a - b), duplicates kept
SortNumeric(values) == IF values = <<>> THEN <<>> ELSE Insert(SortNumeric(Tail(values)), values[1])

\* values.length ? Math.max(...values) : 0
MaxOrZero(values) == IF Len(values) = 0 THEN 0 ELSE SetMax(Range(values))

\* step 4 for one cell and one metric: the intensity by the chosen strategy
LegacyIntensity(strategy, val, min, max, sortedValues) ==
    IF strategy = "percentile" THEN percentile(val, sortedValues)
    ELSE ApplyRange(strategy, val, min, max)

\* !tickerData || !tickerData.chain || !tickerData.chain.length
NoTickerRows(tickerData) == ~tickerData.present \/ Len(tickerData.chain) = 0

matrixSelectMatrixData(st, options) ==
    LET tickerData == st.data[st.activeTicker]
    IN  IF NoTickerRows(tickerData) THEN Null
        ELSE
        LET chain     == tickerData.chain
            strategy  == IF options.strategy = "" THEN "log" ELSE options.strategy
            keys      == {<<chain[i].strike, chain[i].expiry>> : i \in DOMAIN chain}
            gexValues == PositiveGex(chain)
            dexValues == NonZeroDex(chain)
            gexMax    == MaxOrZero(gexValues)
            dexMax    == MaxOrZero(dexValues)
            sortedGex == SortNumeric(gexValues)
            sortedDex == SortNumeric(dexValues)
            cellOf(key) ==
                LET item == LastRowOf(chain, key)
                    gexI == LegacyIntensity(strategy, item.gex, 0, gexMax, sortedGex)
                    dexI == LegacyIntensity(strategy, Abs(item.dex), 0, dexMax, sortedDex)
                IN  [gex |-> [value |-> item.gex, sign |-> Sign(item.gex),
                              intensity |-> gexI, level |-> Level(gexI)],
                     dex |-> [value |-> item.dex, sign |-> Sign(item.dex),
                              intensity |-> dexI, level |-> Level(dexI)]]
        IN  [kind      |-> "snapshot",
             ticker    |-> st.activeTicker,
             mode      |-> IF options.mode = "" THEN "cumulative" ELSE options.mode,
             spotPrice |-> tickerData.underlying_price,
             strikes   |-> SortDesc(ChainStrikes(chain)),
             expiries  |-> SortAsc(ChainExpiries(chain)),
             cells     |-> [key \in keys |-> cellOf(key)],
             stats     |-> [gex |-> [max |-> gexMax, min |-> 0],
                            dex |-> [max |-> dexMax, min |-> 0]]]

---------------------------------------------------------------------------
(* Direct calls of the normalization strategies and of the matrix selector *)

NormVals   == (-1)..(MaxDomain + 1)
DomainVals == 0..MaxDomain

\* ascending populations of magnitudes
Populations == {p \in SeqsUpTo(DomainVals, MaxRows) : \A i \in 1..(Len(p) - 1) : p[i] <= p[i + 1]}

\* STRATEGIES.linear(val, min, max) or STRATEGIES.log(val, min, max)
CallRange(strategy, val, min, max) ==
    /\ call' = [kind |-> "range", strategy |-> strategy, val |-> val, min |-> min, max |-> max,
                out |-> ApplyRange(strategy, val, min, max)]
    /\ UNCHANGED <<state, projection, storeVars, refreshVars, restVars>>

\* STRATEGIES.percentile(val, sortedValues)
CallPercentile(val, sortedValues) ==
    /\ call' = [kind |-> "percentile", val |-> val, sortedValues |-> sortedValues,
                out |-> percentile(val, sortedValues)]
    /\ UNCHANGED <<state, projection, storeVars, refreshVars, restVars>>

\* A store state whose active ticker holds the chain
StateWithChain(chain) ==
    [InitialState EXCEPT !.data["BTCUSDT"] =
        [present |-> TRUE, chain |-> chain, underlying_price |-> 1]]

\* matrixSelectors.selectMatrixData(state, { mode, strategy })
CallMatrixSelect(chain, strategy) ==
    /\ call' = [kind |-> "matrix", chain |-> chain, strategy |-> strategy,
                out |-> matrixSelectMatrixData(StateWithChain(chain),
                                               [mode |-> "cumulative", strategy |-> strategy])]
    /\ UNCHANGED <<state, projection, storeVars, refreshVars, restVars>>

NextNorm ==
    \/ \E strategy \in {"linear", "log"}, val \in NormVals, min \in DomainVals, max \in DomainVals :
           CallRange(strategy, val, min, max)
    \/ \E val \in NormVals, sortedValues \in Populations : CallPercentile(val, sortedValues)
    \/ \E chain \in LegacyChains, strategy \in StrategyOptions : CallMatrixSelect(chain, strategy)

SpecNorm == Init /\ [][NextNorm]_vars

---------------------------------------------------------------------------
(* The store's subscription interface: store.subscribe, the function it
   returns, and store.setState as its caller and its listeners see it *)

\* listener(state) throws: the page listener runs updatePage, whose resolveData
\* lets the exception of selectMatrixData through; the component listeners render
ListenerThrows(listener, st) ==
    listener = PageListener /\ ResolveMatrix(st).kind = "threw"

\* listeners.forEach(listener => listener(state)): the listeners called, in
\* insertion order, up to and including the first one that throws
Notified(registered, st) ==
    LET throwing == {i \in DOMAIN registered : ListenerThrows(registered[i], st)}
    IN  IF throwing = {} THEN registered ELSE SubSeq(registered, 1, SetMin(throwing))

\* The partial updates of the callers of store.setState
StoreChains == {<<>>, <<FeedRow(1, 1, 1)>>, <<FeedRow(2, 2, -1)>>}

Partials ==
    {[gexMode |-> mode] : mode \in KnownModes}
        \cup {[selectedExpiry |-> expiry] : expiry \in Expiries}
        \cup {[gexMode |-> mode, selectedExpiry |-> NoExpiry] : mode \in KnownModes}
        \cup {[data |-> [InitialState.data EXCEPT !["BTC"] =
                            [present |-> TRUE, chain |-> chain, underlying_price |-> price]]] :
                 chain \in StoreChains, price \in Prices}

\* store.setState(newData): the merge, the exchange-data synchronization and the
\* notification of the listeners
StoreSetState(newData) ==
    LET merged == SyncExchangeData(Merge(state, newData), newData)
        called == Notified(listeners, merged)
    IN  /\ state' = merged
        /\ projection' = IF PageListener \in Range(called) THEN ResolveMatrix(merged)
                         ELSE projection
        /\ round' = [kind       |-> "setState",
                     newData    |-> newData,
                     before     |-> state,
                     registered |-> listeners,
                     calls      |-> [i \in DOMAIN called |->
                                        [listener |-> called[i], state |-> merged]],
                     outcome    |-> IF called = listeners THEN "returned" ELSE "threw"]
        /\ UNCHANGED <<call, listeners, refreshVars, restVars>>

\* store.subscribe(listener): listeners.add(listener).  For the page listener
\* this is pageRenderer.initPage, which mounts the page from the current state
\* before it subscribes.
Subscribe(listener) ==
    /\ listener \notin Range(listeners)
    /\ listeners' = Append(listeners, listener)
    /\ projection' = IF listener = PageListener THEN ResolveMatrix(state) ELSE projection
    /\ UNCHANGED <<state, call, round, refreshVars, restVars>>

\* The function store.subscribe returned: listeners.delete(listener)
Unsubscribe(listener) ==
    /\ listener \in Range(listeners)
    /\ listeners' = SelectSeq(listeners, LAMBDA l : l # listener)
    /\ UNCHANGED <<state, projection, call, round, refreshVars, restVars>>

NextStore ==
    \/ \E newData \in Partials : StoreSetState(newData)
    \/ \E listener \in ListenerIds : Subscribe(listener)
    \/ \E listener \in ListenerIds : Unsubscribe(listener)

SpecStore == Init /\ [][NextStore]_vars

---------------------------------------------------------------------------
(* selectors.selectMatrixData as a caller sees it: two calls in a row on one
   state, with the objects they return named by their allocation order *)

\* as if the selector ordered the rows in place: data.chain.reverse()
StateAfterSelect_ReversesChain(st, symbol) ==
    LET key   == BaseSymbol(st, symbol)
        chain == st.data[key].chain
    IN  [st EXCEPT !.data[key].chain = [i \in DOMAIN chain |-> chain[Len(chain) + 1 - i]]]

\* The store state when selectMatrixData has returned or thrown.  The function
\* reads data.chain through map and filter and sorts spread copies only; every
\* assignment it makes is to an object it created in the same call.
StateAfterSelect(st, symbol) == st

\* `return { ... }` creates an object, numbered after the objects created so far;
\* null and an exception are no objects (0)
SnapshotRef(allocated, result) == IF result.kind = "snapshot" THEN allocated + 1 ELSE 0

\* The store states of the direct calls
SelectStates ==
    {[InitialState EXCEPT !.data["BTC"] = [present |-> TRUE, chain |-> chain, underlying_price |-> 1],
                          !.gexMode = mode,
                          !.selectedExpiry = expiry] :
        chain \in Chains, mode \in Modes, expiry \in {NoExpiry} \cup Expiries}

\* const a = selectMatrixData(state, symbol); const b = selectMatrixData(state, symbol)
CallSelectTwice(st, symbol) ==
    LET first      == selectMatrixData(st, symbol)
        firstRef   == SnapshotRef(0, first)
        afterFirst == StateAfterSelect(st, symbol)
        second     == selectMatrixData(afterFirst, symbol)
        secondRef  == SnapshotRef(firstRef, second)
    IN  /\ call = NoCall
        /\ call' = [kind       |-> "select",
                    state      |-> st,
                    symbol     |-> symbol,
                    first      |-> [ref |-> firstRef, value |-> first],
                    second     |-> [ref |-> secondRef, value |-> second],
                    \* the first object when the second call is over
                    firstNow   |-> first,
                    stateBetween |-> afterFirst,
                    stateAfter |-> StateAfterSelect(afterFirst, symbol)]
        /\ UNCHANGED <<state, projection, storeVars, refreshVars, restVars>>

NextFrame ==
    \E st \in SelectStates, symbol \in Symbols \ {""} : CallSelectTwice(st, symbol)

SpecFrame == Init /\ [][NextFrame]_vars

---------------------------------------------------------------------------
(* App.refreshData as an asynchronous call: it awaits
   apiClient.fetchAllMarketData() and, resumed, writes to the store.  The
   update loop starts a call every INTERVAL without waiting for the previous. *)

MaxRequests == 3

\* The chains a `latest` record can carry
RefreshChains == {<<>>, <<FeedRow(1, 1, 1)>>, <<FeedRow(2, 2, -1)>>}

\* dataMap[symbolKey] of fetchAllMarketData: `latest` is null when the fetch was
\* rejected, not ok, or its body no JSON; `chain` is spread from latestJson
NoLatest == [latest |-> FALSE, price |-> 0, hasChain |-> FALSE, chain |-> <<>>]

TickerPayloads(symbolKey) ==
    {NoLatest}
        \cup {[latest |-> TRUE, price |-> price, hasChain |-> FALSE, chain |-> <<>>] :
                 price \in (IF symbolKey = "BTCUSDT" THEN Prices ELSE {MaxPrice})}
        \cup {[latest |-> TRUE, price |-> price, hasChain |-> TRUE, chain |-> chain] :
                 price \in (IF symbolKey = "BTCUSDT" THEN Prices ELSE {}),
                 chain \in RefreshChains}

\* The maps fetchAllMarketData resolves to
SnapshotMaps == {m \in [Tickers -> UNION {TickerPayloads(k) : k \in Tickers}] :
                    \A k \in Tickers : m[k] \in TickerPayloads(k)}

\* as if a ticker without a latest record were reset: createEmptyAssetData()
RefreshedAsset_ResetsOnMissing(payload, prevData) ==
    IF payload.latest
    THEN [present |-> TRUE,
          chain |-> IF payload.hasChain THEN payload.chain ELSE prevData.chain,
          underlying_price |-> payload.price]
    ELSE EmptyAssetData

\* newData[normalizedKey] after one iteration of the for loop: transformApiData
\* spread over prevData and `if (payload.chain) ...chain = payload.chain`, both
\* under `if (payload.latest)`; otherwise the copy of the current entry
RefreshedAsset(payload, prevData) ==
    IF payload.latest
    THEN [present |-> TRUE,
          chain |-> IF payload.hasChain THEN payload.chain ELSE prevData.chain,
          underlying_price |-> payload.price]
    ELSE prevData

\* as if the resumed call dropped its response
RefreshedData_Unchanged(data, snapshots) == data

\* newData after the loop over Object.entries(snapshots)
RefreshedData(data, snapshots) ==
    [key \in DOMAIN data |->
        IF \E symbolKey \in DOMAIN snapshots : NormalizedKey(symbolKey) = key
        THEN RefreshedAsset(snapshots[CHOOSE symbolKey \in DOMAIN snapshots :
                                          NormalizedKey(symbolKey) = key], data[key])
        ELSE data[key]]

\* setInterval(async () => { await App.refreshData(); ... }, INTERVAL), and the
\* call of App.init: the call runs up to its await
StartRefresh ==
    /\ inflight.started < MaxRequests
    /\ inflight' = [inflight EXCEPT !.started = @ + 1, !.pending = @ \cup {inflight.started + 1}]
    /\ UNCHANGED <<state, projection, call, storeVars, refresh, restVars>>

\* fetchAllMarketData resolved: the rest of the try block
CompleteRefresh(request, snapshots) ==
    /\ request \in inflight.pending
    /\ SetState([data |-> RefreshedData(state.data, snapshots)])
    /\ inflight' = [inflight EXCEPT !.pending = @ \ {request}, !.done = Append(@, request)]
    /\ refresh' = [kind |-> "refresh", request |-> request, outcome |-> "stored",
                   snapshots |-> snapshots, before |-> state.data]
    /\ UNCHANGED <<call, storeVars, restVars>>

\* fetchAllMarketData rejected (no API base, a history body that is no array):
\* the catch block logs the error
FailRefresh(request) ==
    /\ request \in inflight.pending
    /\ inflight' = [inflight EXCEPT !.pending = @ \ {request}, !.done = Append(@, request)]
    /\ refresh' = [kind |-> "refresh", request |-> request, outcome |-> "failed",
                   snapshots |-> [symbolKey \in Tickers |-> NoLatest], before |-> state.data]
    /\ UNCHANGED <<state, projection, call, storeVars, restVars>>

NextRefresh ==
    \/ StartRefresh
    \/ \E request \in 1..MaxRequests, snapshots \in SnapshotMaps : CompleteRefresh(request, snapshots)
    \/ \E request \in 1..MaxRequests : FailRefresh(request)
    \/ \E expiry \in Expiries : ClickExpiry(expiry)

SpecRefresh == Init /\ [][NextRefresh]_vars

---------------------------------------------------------------------------
(* The pure renderer of the gexMatrix block: blocks/gexMatrix/render.js, the
   rows it writes and the spot line it positions *)

MaxRenderStrike == 5

\* The snapshots handed to render: strikes in descending order, a spot price
RenderStrikeLists == {SortDesc(S) : S \in SUBSET (1..MaxRenderStrike)}
SpotPrices        == 0..(MaxRenderStrike + 1)

RECURSIVE ToDigits(_)
\* `${strike}` of a non-negative integer: its decimal digits
ToDigits(n) == IF n < 10 THEN <<n>> ELSE Append(ToDigits(n \div 10), n % 10)

RECURSIVE ParseDigits(_)
\* parseFloat(row.dataset.strike) of a string of decimal digits
ParseDigits(digits) ==
    IF Len(digits) = 0 THEN 0
    ELSE 10 * ParseDigits(SubSeq(digits, 1, Len(digits) - 1)) + digits[Len(digits)]

\* A cell of a row: a 12px bar in a cell with 3px of padding above and below
RowHeight == 18

\* Where the grid lays out the cells of the i-th row
CellsTop(i) == (i - 1) * RowHeight

\* row.offsetTop and row.offsetHeight of a .matrix-row: the element has
\* style="display:contents", so it has no layout box of its own, and both
\* properties are 0 for an element without a box
RowOffsetTop(i)    == 0
RowOffsetHeight(i) == 0

\* let closestRow = null; let minDiff = Infinity
ClosestStart == [isInfinity |-> TRUE, minDiff |-> 0, closestRow |-> 0]

RECURSIVE ClosestScan(_, _, _, _)
\* rowsArr.forEach(row => { ... if (diff < minDiff) { ... } })
ClosestScan(rowsArr, spotPrice, i, acc) ==
    IF i > Len(rowsArr) THEN acc
    ELSE LET strike == ParseDigits(rowsArr[i])
             diff   == Abs(strike - spotPrice)
         IN  ClosestScan(rowsArr, spotPrice, i + 1,
                 IF acc.isInfinity \/ diff < acc.minDiff
                 THEN [isInfinity |-> FALSE, minDiff |-> diff, closestRow |-> i]
                 ELSE acc)

\* render(container, ctx) for a non-null ctx.data: the data-strike attribute of
\* the rows in document order, the row the scan ends on, and the style of
\* #matrix-spot-line
render(strikes, spotPrice) ==
    LET rowsArr == [i \in DOMAIN strikes |-> ToDigits(strikes[i])]
        scan    == ClosestScan(rowsArr, spotPrice, 1, ClosestStart)
    IN  [rows       |-> rowsArr,
         closestRow |-> scan.closestRow,
         line       |-> IF scan.closestRow = 0
                        THEN [display |-> "none", top |-> 0]
                        ELSE [display |-> "block",
                              top |-> RowOffsetTop(scan.closestRow)
                                          + (RowOffsetHeight(scan.closestRow) \div 2)]]

\* A direct call of render with a snapshot
CallRender(strikes, spotPrice) ==
    /\ call = NoCall
    /\ call' = [kind |-> "render", strikes |-> strikes, spotPrice |-> spotPrice,
                out |-> render(strikes, spotPrice)]
    /\ UNCHANGED <<state, projection, storeVars, refreshVars, restVars>>

NextRender ==
    \E strikes \in RenderStrikeLists, spotPrice \in SpotPrices : CallRender(strikes, spotPrice)

SpecRender == Init /\ [][NextRender]_vars

---------------------------------------------------------------------------
(* The page lifecycle: pageRenderer.initPage, pageRenderer.cleanup, the store
   updates that reach the page through its subscription, and the animation
   frames of the gexMatrix block *)

MaxInits  == 3
MaxFrames == 2

\* The partial updates that reach the page
PagePartials ==
    {[gexMode |-> mode] : mode \in KnownModes}
        \cup {[selectedExpiry |-> expiry] : expiry \in Expiries}
        \cup {[data |-> [InitialState.data EXCEPT !["BTC"] =
                            [present |-> TRUE, chain |-> chain, underlying_price |-> 1]]] :
                 chain \in StoreChains}

\* pageRenderer as a call of updatePage left it
PageAfter(pr, run) ==
    [pr EXCEPT !.root = run.root, !.frames = run.frames, !.log = @ \o run.log]

RECURSIVE NotifyPage(_, _, _)
\* After the updatePage of one subscription: its exception ends the round
NotifyNext(pr, waiting, st, run) ==
    IF run.threw THEN PageAfter(pr, run)
    ELSE NotifyPage(PageAfter(pr, run), waiting \ {SetMin(waiting)}, st)

\* The listeners subscribed by initPage, called in subscription order:
\* pageLoader.updatePage(this._activePageConfig, this._activeRoot, state); a
\* listener that finds this._activePageConfig null throws on its `.id`
NotifyPage(pr, waiting, st) ==
    IF waiting = {} THEN pr
    ELSE IF pr.activePageConfig = NoPage
    THEN [pr EXCEPT !.log = Append(@, [op |-> "threw", container |-> <<0, 0>>, item |-> 0, was |-> "none"])]
    ELSE NotifyNext(pr, waiting, st,
                    updatePage(PageLayout(pr.activePageConfig), pr.root, st, pr.frames))

\* The store's listeners without those of pageRenderer
WithoutPage(registered) == SelectSeq(registered, LAMBDA listener : listener # PageListener)

\* The store's listeners with those of pageRenderer, the page's subscribed last
ListenersOf(registered, pr) ==
    IF pr.subscriptions = {} THEN WithoutPage(registered)
    ELSE Append(WithoutPage(registered), PageListener)

\* store.setState(newData) while pageRenderer may be subscribed
PageSetState(newData) ==
    /\ state' = SyncExchangeData(Merge(state, newData), newData)
    /\ page' = NotifyPage([page EXCEPT !.op = "setState", !.log = <<>>],
                          page.subscriptions, state')
    /\ Len(page'.frames) <= MaxFrames
    /\ projection' = IF page.activePageConfig = "crypto" /\ page.subscriptions # {}
                     THEN ResolveMatrix(state') ELSE projection
    /\ UNCHANGED <<call, storeVars, refreshVars, serverVars>>

\* pageRenderer.initPage(pages[pageId], root)
InitPage(pageId) ==
    /\ page.generation < MaxInits
    /\ page' = initPage(page, pageId, state)
    /\ Len(page'.frames) <= MaxFrames
    /\ listeners' = ListenersOf(listeners, page')
    /\ projection' = IF pageId = "crypto" THEN ResolveMatrix(state) ELSE projection
    /\ UNCHANGED <<state, call, round, refreshVars, serverVars>>

\* pageRenderer.cleanup()
Cleanup ==
    /\ page' = cleanup(page)
    /\ listeners' = ListenersOf(listeners, page')
    /\ UNCHANGED <<state, projection, call, round, refreshVars, serverVars>>

RECURSIVE RunFrames(_, _)
\* The callbacks of requestAnimationFrame, run in the order they were scheduled:
\* this.scrollToSpot(container, ...); container.dataset.hasInitialScroll = "true"
RunFrames(containers, frames) ==
    IF Len(frames) = 0 THEN containers
    ELSE RunFrames([i \in DOMAIN containers |->
                       IF containers[i].id = Head(frames)
                       THEN [containers[i] EXCEPT !.hasInitialScroll = TRUE,
                                                  !.scrolls = @ + 1]
                       ELSE containers[i]],
                   Tail(frames))

\* The browser runs the animation-frame callbacks scheduled so far
AnimationFrame ==
    /\ Len(page.frames) > 0
    /\ page' = [page EXCEPT !.root = RunFrames(@, page.frames),
                            !.removed = RunFrames(@, page.frames),
                            !.frames = <<>>,
                            !.op = "frame",
                            !.log = <<>>]
    /\ UNCHANGED <<state, projection, call, storeVars, refreshVars, serverVars>>

NextPage ==
    \/ \E newData \in PagePartials : PageSetState(newData)
    \/ \E pageId \in PageIds : InitPage(pageId)
    \/ Cleanup
    \/ AnimationFrame

SpecPage == Init /\ [][NextPage]_vars

---------------------------------------------------------------------------
(* Repeated calls of the pure renderer on one container *)

MaxRerenderStrike == 3
MaxRenders        == 3

\* ctx.data of the calls: null, or a snapshot's strikes and spot price
RenderCtxs ==
    {Null} \cup {[kind |-> "snapshot", strikes |-> SortDesc(S), spotPrice |-> spotPrice] :
                    S \in SUBSET (1..MaxRerenderStrike), spotPrice \in 0..(MaxRerenderStrike + 1)}

\* A container nothing was rendered into
FreshContainer == [innerHTML |-> [kind |-> "empty"], dataset |-> {}]

\* as if the markup were added to the container's content: `container.innerHTML += ...`
renderInto_Appends(container, data) ==
    IF data.kind = "null"
    THEN [container EXCEPT !.innerHTML = [kind |-> "matrix-empty"]]
    ELSE LET out  == render(data.strikes, data.spotPrice)
             kept == IF container.innerHTML.kind = "matrix-wrapper"
                     THEN container.innerHTML.rows ELSE <<>>
         IN  [container EXCEPT !.innerHTML =
                 [kind |-> "matrix-wrapper", rows |-> kept \o out.rows,
                  label |-> data.spotPrice, line |-> out.line]]

\* render(container, ctx): `container.innerHTML = ...` replaces the content of the
\* container by the rows of ctx.data.strikes, the spot label and the spot line,
\* whose style the scan over the new rows sets
renderInto(container, data) ==
    IF data.kind = "null"
    THEN [container EXCEPT !.innerHTML = [kind |-> "matrix-empty"]]
    ELSE LET out == render(data.strikes, data.spotPrice)
         IN  [container EXCEPT !.innerHTML =
                 [kind |-> "matrix-wrapper", rows |-> out.rows,
                  label |-> data.spotPrice, line |-> out.line]]

\* render(container, ctx) on a new container, or once more on the container of
\* the calls before
CallRenderInto(data) ==
    LET before == IF call = NoCall THEN FreshContainer ELSE call.container
        count  == IF call = NoCall THEN 0 ELSE call.renders
    IN  /\ call = NoCall \/ (call.kind = "rendered" /\ call.renders < MaxRenders)
        /\ call' = [kind |-> "rendered", data |-> data, before |-> before,
                    container |-> renderInto(before, data), renders |-> count + 1]
        /\ UNCHANGED <<state, projection, storeVars, refreshVars, restVars>>

NextRerender == \E data \in RenderCtxs : CallRenderInto(data)

SpecRerender == Init /\ [][NextRerender]_vars

---------------------------------------------------------------------------
(* Direct calls of STRATEGIES.linear on wider ranges *)

MaxLinearVal == 3

\* The arguments of the calls: small integers and the values of the documented
\* examples
LinearVals   == ((-MaxLinearVal)..MaxLinearVal) \cup {-10, 50, 100, 150}
LinearLimits == (-1..MaxLinearVal) \cup {100}

NextLinear ==
    \E val \in LinearVals, min \in LinearLimits, max \in LinearLimits :
        CallRange("linear", val, min, max)

SpecLinear == Init /\ [][NextLinear]_vars

---------------------------------------------------------------------------
(* The server: the response cache of server/cache/memory.js and the endpoints
   /:asset/gex/strikes (routes/gex.js) and /:asset/volatility/strikes
   (routes/volatility.js) that read and fill it *)

ClockStep      == 5000
MaxClock       == 25000
MaxGexRequests == 2
MaxVolRequests == 4

\* The cacheGet TTLs of the two endpoints
GexStrikesTtl     == 15000
VolExpirationTtl  == 15000
VolAllTtl         == 30000

\* Object.keys(dbMap): the keys of dbPaths once initDbConnections has run
DbAssets == {"btc", "eth", "sol", "xrp", "mnt", "doge", "imoex"}

\* validateAsset(asset)
validateAsset(asset) == asset \in DbAssets

\* String.prototype.toLowerCase on the strings of the model
ToLowerCase(s) ==
    IF s = "BTC" THEN "btc"
    ELSE IF s = "ALL" \/ s = "All" THEN "all"
    ELSE s

\* String.prototype.trim on the strings of the model
Trim(s) == IF s = " d2" THEN "d2" ELSE s

\* The query parameters of the model.  An absent parameter is "": every test
\* the handlers make of mode, dates and expiration (`||`, `!`, `? :`) treats
\* undefined and "" alike.  dates is given as the list of its comma-separated
\* parts.
AssetParams      == {"BTC", "nope"}
ModeParams       == {"", "single", "weekly", "cumulative", "all", "all:x"}
DatesParams      == {<<>>, <<"d1">>, <<"d1", " d2">>, <<"all">>, <<"ALL">>, <<"x:d1">>}
ExpirationParams == {"", "all", "d1"}

RECURSIVE Join(_)
\* The string whose split(',') is the list
Join(parts) ==
    IF Len(parts) = 0 THEN ""
    ELSE IF Len(parts) = 1 THEN parts[1]
    ELSE parts[1] \o "," \o Join(Tail(parts))

\* responseCache.get(key)
HasEntry(cache, key) == key \in DOMAIN cache

\* cacheGet(key, ttlMs) at time t: the value returned, null when there is no
\* entry or the entry is older than ttlMs, and the cache it leaves
cacheGet(cache, key, ttlMs, t) ==
    IF ~HasEntry(cache, key) THEN [value |-> Null, cache |-> cache]
    ELSE IF (t - cache[key].ts) > ttlMs
    THEN [value |-> Null, cache |-> [k \in DOMAIN cache \ {key} |-> cache[k]]]
    ELSE [value |-> cache[key].value, cache |-> cache]

\* cacheSet(key, value) at time t
cacheSet(cache, key, value, t) ==
    [k \in DOMAIN cache \cup {key} |-> IF k = key THEN [ts |-> t, value |-> value] ELSE cache[k]]

\* A request as the handler reads it
Request(route, asset, mode, dates, expiration) ==
    [route |-> route, asset |-> asset, mode |-> mode, dates |-> dates, expiration |-> expiration]

\* const asset = req.params.asset.toLowerCase()
AssetOf(request) == ToLowerCase(request.asset)

\* const mode = req.query.mode || 'single'
GexModeOf(request) == IF request.mode = "" THEN "single" ELSE request.mode

\* const cacheKey = ...
CacheKey(request) ==
    IF request.route = "gex_strikes"
    THEN "gex_strikes:" \o AssetOf(request) \o ":" \o GexModeOf(request) \o ":" \o Join(request.dates)
    ELSE "vol_strikes:" \o AssetOf(request) \o ":"
             \o (IF request.expiration = "" THEN "all" ELSE request.expiration)

\* The ttlMs of the handler's cacheGet
TtlOf(request) ==
    IF request.route = "gex_strikes" THEN GexStrikesTtl
    ELSE IF request.expiration # "" THEN VolExpirationTtl ELSE VolAllTtl

\* as if only 'single' selected the per-date table
IsCumulative_UnlessSingle(mode, dates) ==
    mode # "single" \/ Len(dates) = 0 \/ ToLowerCase(Join(dates)) = "all"

\* const isCumulative = mode === 'all' || mode === 'cumulative' || !dates
\*                          || dates.toLowerCase() === 'all'
IsCumulative(mode, dates) ==
    mode = "all" \/ mode = "cumulative" \/ Len(dates) = 0 \/ ToLowerCase(Join(dates)) = "all"

\* The body of a response computed from the rows the query delivered at time t
ComputedBody(request, t) ==
    IF request.route = "gex_strikes"
    THEN LET mode         == GexModeOf(request)
             isCumulative == IsCumulative(mode, request.dates)
         IN  [asset   |-> AssetOf(request),
              mode    |-> mode,
              dates   |-> IF isCumulative THEN "all" ELSE Join(request.dates),
              strikes |-> [table  |-> IF isCumulative
                                      THEN "Options_Greeks_By_Strike_All_Expiries"
                                      ELSE "Options_Greeks_By_Strike",
                           params |-> IF isCumulative THEN <<>>
                                      ELSE [i \in DOMAIN request.dates |-> Trim(request.dates[i])],
                           readAt |-> t]]
    ELSE [asset |-> AssetOf(request),
          data  |-> [table  |-> "Options_Volatility",
                     params |-> IF request.expiration # "" THEN <<request.expiration>> ELSE <<>>,
                     readAt |-> t]]

\* res.status(status).json(body)
Response(status, body, cached) == [status |-> status, body |-> body, cached |-> cached]

NoResponse == [status |-> 0]
NoGet      == [key |-> ""]

\* What a step of a handler did: its cacheGet, if it made one, and its response,
\* if it sent one
HandlerStep(request, get, response) ==
    [kind |-> "request", request |-> request, at |-> now, get |-> get, response |-> response]

\* The latest cacheSet of the key, as the log has it
LatestSet(key) ==
    IF key \in DOMAIN cacheLog.latest THEN cacheLog.latest[key] ELSE [ts |-> -1]

\* The handler up to its database query: the asset and parameter tests, then
\* cacheGet; a hit is sent, a miss leaves the request waiting for runAll
Receive(request) ==
    LET key == CacheKey(request)
        got == cacheGet(responseCache, key, TtlOf(request), now)
        get == [key |-> key, ttlMs |-> TtlOf(request), value |-> got.value,
                latest |-> LatestSet(key), kept |-> HasEntry(got.cache, key)]
    IN  /\ cacheLog' = [cacheLog EXCEPT !.requests = @ + 1]
        /\ IF ~validateAsset(AssetOf(request))
           THEN /\ call' = HandlerStep(request, NoGet,
                                       Response(404, [error |-> "Unknown asset"], FALSE))
                /\ UNCHANGED <<responseCache, pending>>
           ELSE IF request.route = "vol_strikes" /\ request.expiration \in {"undefined", "null"}
           THEN /\ call' = HandlerStep(request, NoGet,
                                       Response(200, [asset |-> AssetOf(request), data |-> <<>>], FALSE))
                /\ UNCHANGED <<responseCache, pending>>
           ELSE IF request.route = "gex_strikes" /\ Len(request.dates) = 0
           THEN /\ call' = HandlerStep(request, NoGet,
                                       Response(400, [error |-> "dates parameter required"], FALSE))
                /\ UNCHANGED <<responseCache, pending>>
           ELSE /\ responseCache' = got.cache
                /\ IF got.value # Null
                   THEN /\ call' = HandlerStep(request, get, Response(200, got.value, TRUE))
                        /\ UNCHANGED pending
                   ELSE /\ call' = HandlerStep(request, get, NoResponse)
                        /\ pending' = pending \cup {[request |-> request, id |-> cacheLog.requests + 1]}
        /\ UNCHANGED <<now, listen, clientVars>>

\* GET /:asset/gex/strikes?mode=..&dates=..
GetGexStrikes(asset, mode, dates) ==
    /\ cacheLog.requests < MaxGexRequests
    /\ Receive(Request("gex_strikes", asset, mode, dates, ""))

\* GET /:asset/volatility/strikes?expiration=..
GetVolStrikes(asset, expiration) ==
    /\ cacheLog.requests < MaxVolRequests
    /\ Receive(Request("vol_strikes", asset, "", <<>>, expiration))

\* The query of a waiting request delivers its rows: the body is built, stored
\* with cacheSet and sent
QueryResolves(waiting) ==
    LET key  == CacheKey(waiting.request)
        body == ComputedBody(waiting.request, now)
    IN  /\ waiting \in pending
        /\ pending' = pending \ {waiting}
        /\ responseCache' = cacheSet(responseCache, key, body, now)
        /\ cacheLog' = [cacheLog EXCEPT !.latest =
                           [k \in DOMAIN cacheLog.latest \cup {key} |->
                               IF k = key THEN [ts |-> now, value |-> body]
                               ELSE cacheLog.latest[k]]]
        /\ call' = HandlerStep(waiting.request, NoGet, Response(200, body, FALSE))
        /\ UNCHANGED <<now, listen, clientVars>>

\* The query of a waiting request fails: catch (e) { res.status(500)... }
QueryRejects(waiting) ==
    /\ waiting \in pending
    /\ pending' = pending \ {waiting}
    /\ call' = HandlerStep(waiting.request, NoGet,
                           Response(500, [error |-> "SQLITE_ERROR"], FALSE))
    /\ UNCHANGED <<responseCache, cacheLog, now, listen, clientVars>>

\* Date.now() advances
Tick ==
    /\ now + ClockStep <= MaxClock
    /\ now' = now + ClockStep
    /\ UNCHANGED <<call, responseCache, pending, cacheLog, listen, clientVars>>

NextGexApi ==
    \/ \E asset \in AssetParams, mode \in ModeParams, dates \in DatesParams :
           GetGexStrikes(asset, mode, dates)
    \/ \E waiting \in pending : QueryResolves(waiting)
    \/ \E waiting \in pending : QueryRejects(waiting)
    \/ Tick

SpecGexApi == Init /\ [][NextGexApi]_vars

NextCache ==
    \/ \E expiration \in ExpirationParams : GetVolStrikes("btc", expiration)
    \/ \E waiting \in pending : QueryResolves(waiting)
    \/ \E waiting \in pending : QueryRejects(waiting)
    \/ Tick

SpecCache == Init /\ [][NextCache]_vars

---------------------------------------------------------------------------
(* loadPage and updatePage on layouts that may name blocks that are not
   registered *)
MaxLayout == 3

\* Layout items as a page config may list them; no block is registered under
\* 'ghost'
LayoutItems ==
    {Item("gexTable", "BTCUSDT"), Item("gexMatrix", "BTCUSDT"), Item("ghost", "BTCUSDT")}

Layouts == SeqsUpTo(LayoutItems, MaxLayout)

\* What a call of loadPage or updatePage left: the root and the lifecycle
\* calls it made
PageCall(op, layout, run) ==
    [kind |-> "page", op |-> op, layout |-> layout,
     root |-> run.root, log |-> run.log, threw |-> run.threw]

\* loadPage(pageConfig, root, state) on an empty root
CallLoadPage(layout) ==
    /\ call' = PageCall("loadPage", layout, loadPage(layout, state, 1, <<>>))
    /\ UNCHANGED <<state, projection, storeVars, refreshVars, restVars>>

\* A store update followed by updatePage(pageConfig, root, state) on the root
\* and with the page config of the loadPage before
CallUpdatePage(newData) ==
    /\ call # NoCall
    /\ call.kind = "page"
    /\ state' = SyncExchangeData(Merge(state, newData), newData)
    /\ call' = PageCall("updatePage", call.layout,
                        updatePage(call.layout, call.root, state', <<>>))
    /\ UNCHANGED <<projection, storeVars, refreshVars, restVars>>

NextLayout ==
    \/ \E layout \in Layouts : CallLoadPage(layout)
    \/ \E newData \in PagePartials : CallUpdatePage(newData)

SpecLayout == Init /\ [][NextLayout]_vars

---------------------------------------------------------------------------
(* store.setState called by a listener while store.setState notifies the
   listeners *)

\* A listener that answers a state it does not accept with
\* store.setState(correction)
ReentrantListener == "reentrant"

ReentrantIds == {"header", PageListener, ReentrantListener}

\* The partial update the re-entrant listener makes
Corrections == {[gexMode |-> "cumulative"], [selectedExpiry |-> 1]}

\* The listener calls store.setState when the state it receives does not hold
\* its correction yet
Reacts(listener, correction, st) ==
    listener = ReentrantListener /\ Merge(st, correction) # st

\* A notification in progress: the module variable `state`, the listener calls
\* made so far and whether an exception is on its way out
Notifying(st, calls, threw) == [state |-> st, calls |-> calls, threw |-> threw]

\* listener(state): `state` is read when the listener is called
Called(run, listener, depth) ==
    Notifying(run.state,
              Append(run.calls, [listener |-> listener, state |-> run.state, depth |-> depth]),
              ListenerThrows(listener, run.state))

RECURSIVE Deliver(_, _, _, _, _)
\* What the call of a listener does: a listener that calls store.setState runs
\* the merge and a whole forEach inside its own call
Reaction(registered, correction, depth, listener, made) ==
    IF made.threw \/ ~Reacts(listener, correction, made.state) THEN made
    ELSE Deliver(registered, 1, correction, depth + 1,
                 Notifying(SyncExchangeData(Merge(made.state, correction), correction),
                           made.calls, FALSE))

\* listeners.forEach(listener => listener(state)) from the i-th listener on.
\* An exception of a listener, or of the forEach a listener started, leaves
\* through the listener and the forEach that called it.
Deliver(registered, i, correction, depth, run) ==
    IF i > Len(registered) \/ run.threw THEN run
    ELSE Deliver(registered, i + 1, correction, depth,
                 Reaction(registered, correction, depth, registered[i],
                          Called(run, registered[i], depth)))

\* The round as store.setState left it
Round(newData, correction, registered, run) ==
    [kind       |-> "reentrant",
     newData    |-> newData,
     correction |-> correction,
     registered |-> registered,
     calls      |-> run.calls,
     state      |-> run.state,
     outcome    |-> IF run.threw THEN "threw" ELSE "returned"]

\* store.setState(newData) while the re-entrant listener may be subscribed
ReentrantSetState(newData, correction) ==
    /\ round' = Round(newData, correction, listeners,
                      Deliver(listeners, 1, correction, 1,
                              Notifying(SyncExchangeData(Merge(state, newData), newData),
                                        <<>>, FALSE)))
    /\ state' = round'.state
    /\ projection' = IF \E i \in DOMAIN round'.calls : round'.calls[i].listener = PageListener
                     THEN ResolveMatrix(state') ELSE projection
    /\ UNCHANGED <<call, listeners, refreshVars, restVars>>

NextReentrant ==
    \/ \E newData \in PagePartials, correction \in Corrections :
           ReentrantSetState(newData, correction)
    \/ \E listener \in ReentrantIds : Subscribe(listener)
    \/ \E listener \in ReentrantIds : Unsubscribe(listener)

SpecReentrant == Init /\ [][NextReentrant]_vars

---------------------------------------------------------------------------
(* The start of the server: buildPorts and tryListen of
   server/utils/serverHelpers.js, called by server.js *)

\* for (let p = 8995; p <= 9010; p++) base.push(p)
FirstScanPort == 8995
LastScanPort  == 9010

ScanPorts == [k \in 1..(LastScanPort - FirstScanPort + 1) |-> FirstScanPort + k - 1]

\* base.push(9000, 9004, 9001)
PreferredPorts == <<9000, 9004, 9001>>

\* Number(process.argv[2]) || null, null and 0 written 0: no argument, a port
\* of its own, a port of the list, a number app.listen does not accept
ArgPorts == {0, 3000, 9001, -1}

\* The ports net.Server.listen accepts; it throws a RangeError for the others
ValidPort(port) == port \in 0..65535

\* A function that leaves the duplicates in the list
unique_KeepsDuplicates(arr) == arr

\* unique(arr): arr.filter(x => !s.has(x) && s.add(x)), the first occurrence
\* of every element in the order of arr
unique(arr) ==
    LET RECURSIVE Filter(_, _)
        Filter(i, seen) ==
            IF i > Len(arr) THEN <<>>
            ELSE IF arr[i] \in seen THEN Filter(i + 1, seen)
            ELSE <<arr[i]>> \o Filter(i + 1, seen \cup {arr[i]})
    IN  Filter(1, {})

\* buildPorts(argPort)
buildPorts(argPort) ==
    unique((IF argPort # 0 THEN <<argPort>> ELSE <<>>)
               \o PreferredPorts \o ScanPorts \o <<0>>)

\* e.code === 'EADDRINUSE' || e.code === 'EACCES'
BusyCodes  == {"EADDRINUSE", "EACCES"}
ErrorCodes == BusyCodes \cup {"EADDRNOTAVAIL"}

\* attempt(): the promise's state, the index i, the ports app.listen was called
\* with, the servers not closed and the errors their 'error' events brought
attempt(l) ==
    IF l.i >= Len(l.ports)
    THEN [l EXCEPT !.status = "rejected", !.result = [error |-> "No free ports"]]
    ELSE LET port == l.ports[l.i + 1]
         IN  IF ~ValidPort(port)
             THEN [l EXCEPT !.i = @ + 1, !.tried = Append(@, port), !.status = "threw",
                            !.result = [error |-> "RangeError"]]
             ELSE [l EXCEPT !.i = @ + 1, !.tried = Append(@, port), !.open = @ \cup {port},
                            !.status = "starting"]

\* tryListen(app, ports): the executor calls attempt(); an exception of the
\* executor rejects the promise
tryListen(argPort, ports) ==
    LET first == attempt([status |-> "pending", argPort |-> argPort, ports |-> ports, i |-> 0,
                          tried |-> <<>>, open |-> {}, errors |-> <<>>,
                          result |-> [error |-> "none"]])
    IN  IF first.status = "threw" THEN [first EXCEPT !.status = "rejected"] ELSE first

\* server.js: tryListen(app, buildPorts(argPort))
TryListen(argPort) ==
    /\ listen.status = "none"
    /\ listen' = tryListen(argPort, buildPorts(argPort))
    /\ UNCHANGED <<call, responseCache, now, pending, cacheLog, clientVars>>

\* The 'listening' event of the server of the current attempt:
\* () => resolve(server)
Listening ==
    /\ listen.status = "starting"
    /\ listen' = [listen EXCEPT !.status = "resolved",
                                !.result = [server |-> listen.tried[Len(listen.tried)]]]
    /\ UNCHANGED <<call, responseCache, now, pending, cacheLog, clientVars>>

\* The 'error' event of the server of the current attempt
ServerError(code) ==
    /\ listen.status = "starting"
    /\ listen' = IF code \in BusyCodes
                 THEN [listen EXCEPT !.status = "timer",
                                     !.open = @ \ {listen.tried[Len(listen.tried)]},
                                     !.errors = Append(@, "busy")]
                 ELSE [listen EXCEPT !.status = "rejected",
                                     !.errors = Append(@, code),
                                     !.result = [error |-> code]]
    /\ UNCHANGED <<call, responseCache, now, pending, cacheLog, clientVars>>

\* setTimeout(attempt, 50) fires; an exception of attempt is then nobody's
Timeout ==
    /\ listen.status = "timer"
    /\ listen' = attempt(listen)
    /\ UNCHANGED <<call, responseCache, now, pending, cacheLog, clientVars>>

NextListen ==
    \/ \E argPort \in ArgPorts : TryListen(argPort)
    \/ Listening
    \/ \E code \in ErrorCodes : ServerError(code)
    \/ Timeout

SpecListen == Init /\ [][NextListen]_vars

\* server.js calls tryListen when the process starts; every app.listen ends in
\* a 'listening' or an 'error' event, and every timer fires
SpecListenFair == SpecListen /\ WF_vars(NextListen)

---------------------------------------------------------------------------
(* Properties *)

\* The asset the gexMatrix block projects, and the rows its filter keeps
Asset       == state.data[StripUSDT(MatrixTicker)]
Target      == TargetExpiry(state, Asset.chain)
VisibleRows == FilterChain(Asset.chain, ModeOf(state), Target)

ValueFields == {"gex", "dex", "netOi", "callOi", "putOi"}
DomainNames == {"gex", "dex", "netOi", "oi"}

\* The cell of a strike in a snapshot
CellAt(snapshot, strike) == snapshot.cells[<<strike, snapshot.expiries[1]>>]

\* C1: every normalization strategy returns an intensity in [0,1] for every
\* input, percentile included when the value is no member of the population
\* (cells with gex <= 0) and when the population has exactly one element.
C1_IntensityBounded ==
    /\ call.kind \in {"range", "percentile"} => InUnit(call.out)
    /\ (call.kind = "matrix" /\ call.out.kind = "snapshot") =>
           \A key \in DOMAIN call.out.cells :
               /\ InUnit(call.out.cells[key].gex.intensity)
               /\ InUnit(call.out.cells[key].dex.intensity)

C3_StaleExpiryFallsBack ==
    (~NoRows(Asset) /\ state.selectedExpiry # NoExpiry
        /\ state.selectedExpiry \notin ChainExpiries(Asset.chain)) =>
        /\ projection.kind = "snapshot" => projection.targetExpiry = SetMin(ChainExpiries(Asset.chain))
        /\ projection = selectMatrixData([state EXCEPT !.selectedExpiry = NoExpiry], MatrixTicker)

\* C4: a gexMode other than 'single' and 'cumulative' falls back to single mode:
\* the snapshot is the one built for mode 'single'.
C4_UnknownModeIsSingle ==
    (~NoRows(Asset) /\ state.gexMode \notin KnownModes) =>
        projection = selectMatrixData([state EXCEPT !.gexMode = "single"], MatrixTicker)

\* C5: selectMatrixData never throws, whatever the store state; in particular
\* not for a non-empty chain while the cell intensities are computed.
C5_NeverThrows == projection.kind # "threw"

\* C6: in cumulative mode with target expiry e2, every strike with a row of expiry
\* <= e2 has a cell whose raw gex, dex, netOi, callOi and putOi are the sums of the
\* single-mode values of that strike over the expiries e <= e2 of the chain.
C6_CumulativeSums ==
    (~NoRows(Asset) /\ ModeOf(state) = "cumulative") =>
        \A strike \in {r.strike : r \in {x \in Range(Asset.chain) : x.expiry <= Target}} :
            /\ projection.kind = "snapshot"
            /\ <<strike, projection.expiries[1]>> \in DOMAIN projection.cells
            /\ \A f \in ValueFields :
                   LET single(e) == StrikeSums(FilterChain(Asset.chain, "single", e), strike)[f]
                       upTo      == SortAsc({e \in ChainExpiries(Asset.chain) : e <= Target})
                   IN  CellAt(projection, strike)[f].value =
                           SumSeq([i \in DOMAIN upTo |-> single(upTo[i])])

\* C7: in single mode the snapshot shows the rows at targetExpiry and no other:
\* expiries = [targetExpiry], strikes are the strikes of those rows, and every
\* cell value and every domain is computed from those rows alone.
C7_SingleModeRows ==
    (~NoRows(Asset) /\ ModeOf(state) = "single") =>
        LET rowsAt   == SelectSeq(Asset.chain, LAMBDA item : item.expiry = Target)
            strikes  == SortDesc(ChainStrikes(rowsAt))
        IN  /\ projection.kind = "snapshot"
            /\ projection.expiries = <<Target>>
            /\ projection.strikes = strikes
            /\ \A i \in DOMAIN strikes : \A f \in ValueFields :
                   CellAt(projection, strikes[i])[f].value = StrikeSums(rowsAt, strikes[i])[f]
            /\ projection.maxVals = MaxVals(rowsAt, strikes)

\* C8: keyLevels.resistance is the strike of the visible cell with the largest
\* net GEX and keyLevels.support the strike of the one with the smallest; the
\* highest strike wins a tie.
C8_KeyLevels ==
    (~NoRows(Asset) /\ VisibleRows # <<>>) =>
        LET strikes   == ChainStrikes(VisibleRows)
            gexOf(k)  == StrikeSums(VisibleRows, k).gex
            largest   == SetMax({gexOf(k) : k \in strikes})
            smallest  == SetMin({gexOf(k) : k \in strikes})
        IN  /\ projection.kind = "snapshot"
            /\ projection.keyLevels.resistance = SetMax({k \in strikes : gexOf(k) = largest})
            /\ projection.keyLevels.support = SetMax({k \in strikes : gexOf(k) = smallest})

\* C9: every cell's bar width is |value| / domain.max * 100 for the metric's
\* domain (the oi domain for callOi and putOi) and lies in [0,100].
C9_Widths ==
    (~NoRows(Asset) /\ VisibleRows # <<>>) =>
        /\ projection.kind = "snapshot"
        /\ \A strike \in ChainStrikes(VisibleRows) : \A f \in ValueFields :
               LET bar    == CellAt(projection, strike)[f]
                   domain == IF f \in {"callOi", "putOi"} THEN "oi" ELSE f
               IN  /\ bar.width = Quot(Abs(bar.value) * 100, projection.maxVals[domain])
                   /\ InPercent(bar.width)

IsCeilOfTenTimes(L, x) ==
    IF x.k = "q"
    THEN x.d > 0 /\ (L - 1) * x.d < 10 * x.n /\ 10 * x.n <= L * x.d
    ELSE /\ Pow(x.v + 1, 10) * Pow(x.lo + 1, L) <= Pow(x.hi + 1, L) * Pow(x.lo + 1, 10)
         /\ L > 0
         /\ Pow(x.v + 1, 10) * Pow(x.lo + 1, L - 1) > Pow(x.hi + 1, L - 1) * Pow(x.lo + 1, 10)

\* the level of one metric of a cell is the quantized intensity
LevelQuantized(metric) ==
    /\ metric.level.k = "q" /\ metric.level.d = 1
    /\ metric.level.n \in 0..10
    /\ IsCeilOfTenTimes(metric.level.n, metric.intensity)
    /\ (metric.level.n = 0) <=> (metric.intensity.k = "q" /\ metric.intensity.d > 0
                                    /\ metric.intensity.n = 0)

\* C11: for every cell and for both gex and dex, level = ceil(intensity * 10) and
\* 0 <= level <= 10, with level = 0 exactly when intensity = 0.
C11_LevelQuantized ==
    (call.kind = "matrix" /\ call.out.kind = "snapshot") =>
        \A key \in DOMAIN call.out.cells :
            /\ LevelQuantized(call.out.cells[key].gex)
            /\ LevelQuantized(call.out.cells[key].dex)

SignedFields == {"gex", "dex", "netOi"}

\* C12: for every cell and each signed metric (gex, dex, netOi), sign is the sign
\* of the summed raw value: -1 for a negative value, 0 for 0, +1 for a positive one.
C12_SignConsistent ==
    ~NoRows(Asset) =>
        \A strike \in ChainStrikes(VisibleRows) :
            /\ projection.kind = "snapshot"
            /\ <<strike, projection.expiries[1]>> \in DOMAIN projection.cells
            /\ \A f \in SignedFields :
                   LET metric == CellAt(projection, strike)[f]
                   IN  /\ metric.value = StrikeSums(VisibleRows, strike)[f]
                       /\ (metric.sign = -1) <=> (metric.value < 0)
                       /\ (metric.sign = 0) <=> (metric.value = 0)
                       /\ (metric.sign = 1) <=> (metric.value > 0)

\* C13: selectMatrixData returns null exactly when the ticker has no rows loaded
\* (no store entry, a missing or an empty chain); when rows are loaded and the
\* mode/expiry filter leaves none visible it returns a snapshot with empty strikes.
C13_NullIffNoRows ==
    /\ (projection = Null) <=> (~Asset.present \/ Asset.chain = <<>>)
    /\ (Asset.present /\ Asset.chain # <<>> /\ VisibleRows = <<>>) =>
           /\ projection.kind = "snapshot"
           /\ projection.strikes = <<>>

\* Rows are loaded, none is visible, and the projection is a snapshot
C13_Witness ==
    /\ Asset.present /\ Asset.chain # <<>>
    /\ VisibleRows = <<>>
    /\ projection.kind = "snapshot"
    /\ projection.strikes = <<>>

\* C14: store.setState(partial) replaces exactly the top-level keys present in
\* partial, every other top-level key keeps its value, and before it returns it
\* calls every listener registered at that moment exactly once, with the merged
\* state; every call makes its own notification round.
C14_SetStateContract ==
    round.kind = "setState" =>
        /\ \A key \in DOMAIN state :
               state[key] = IF key \in DOMAIN round.newData THEN round.newData[key]
                            ELSE round.before[key]
        /\ round.outcome = "returned"
        /\ round.calls = [i \in DOMAIN round.registered |->
                             [listener |-> round.registered[i], state |-> state]]

\* C15: after the function returned by store.subscribe(listener) was called, no
\* later setState invokes that listener, while every listener still subscribed
\* is notified on each setState.
C15_UnsubscribeStops ==
    round.kind = "setState" =>
        LET invoked == {round.calls[i].listener : i \in DOMAIN round.calls}
        IN  /\ \A listener \in ListenerIds \ Range(round.registered) : listener \notin invoked
            /\ \A listener \in Range(round.registered) : listener \in invoked

C17_ClickReprojects ==
    [][/\ \A mode \in KnownModes :
              ClickMode(mode) =>
                  /\ state'.gexMode = mode
                  /\ projection'.kind = "snapshot"
                  /\ projection'.mode = mode
       /\ \A expiry \in Expiries :
              ClickExpiry(expiry) =>
                  /\ state'.selectedExpiry = expiry
                  /\ projection'.kind = "snapshot"
                  /\ projection'.targetExpiry = expiry]_vars

\* The tickers a refresh did not deliver a latest record for
Affected == {symbolKey \in Tickers : ~refresh.snapshots[symbolKey].latest}

\* C18: when a refresh fails as a whole, or the fetch of one ticker fails or has
\* no latest record, the store data of the affected tickers is what it was before
\* the refresh, and the matrix shown is the one of the data loaded before.
C18_FailureKeepsData ==
    refresh.kind = "refresh" =>
        /\ refresh.outcome = "failed" => state.data = refresh.before
        /\ \A symbolKey \in Affected :
               state.data[NormalizedKey(symbolKey)] = refresh.before[NormalizedKey(symbolKey)]
        /\ MatrixTicker \in Affected =>
               projection = selectMatrixData([state EXCEPT !.data = refresh.before], MatrixTicker)

\* A refresh without a latest record for the matrix ticker, which had rows, while
\* another ticker was updated
C18_Witness ==
    /\ refresh.kind = "refresh" /\ refresh.outcome = "stored"
    /\ MatrixTicker \in Affected
    /\ Affected # Tickers
    /\ refresh.before["BTC"].chain # <<>>
    /\ state.data["ETH"] # refresh.before["ETH"]
    /\ projection.kind = "snapshot"

\* The last refresh to end had started before one that ended earlier
StaleCompletion ==
    /\ refresh.kind = "refresh"
    /\ \E i \in 1..(Len(inflight.done) - 1) : inflight.done[i] > refresh.request

\* C19: when two refreshData calls overlap and the one started earlier ends last,
\* the store's data holds the earlier request's result: the order of completion
\* decides, and nothing discards the stale response.
C19_StaleResponseWins ==
    (StaleCompletion /\ refresh.outcome = "stored") =>
        \A symbolKey \in Tickers \ Affected :
            LET payload == refresh.snapshots[symbolKey]
                asset   == state.data[NormalizedKey(symbolKey)]
            IN  /\ asset.present
                /\ asset.underlying_price = payload.price
                /\ payload.hasChain => asset.chain = payload.chain

\* The stale response replaced the rows and the price the newer one had stored
C19_Witness ==
    /\ StaleCompletion /\ refresh.outcome = "stored"
    /\ refresh.snapshots[MatrixTicker].latest /\ refresh.snapshots[MatrixTicker].hasChain
    /\ refresh.before["BTC"].present
    /\ refresh.before["BTC"].chain # state.data["BTC"].chain
    /\ refresh.before["BTC"].underlying_price # state.data["BTC"].underlying_price

\* The strike nearest to the spot price, the higher one of two equally near
NearestStrike(strikes, spotPrice) ==
    LET near == {s \in Range(strikes) :
                    \A o \in Range(strikes) : Abs(s - spotPrice) <= Abs(o - spotPrice)}
    IN  SetMax(near)

\* C20: the spot-price indicator is placed on the row of the strike with the
\* smallest absolute difference to spotPrice among the rendered strikes; of two
\* equally near strikes the one rendered first, the higher one, is chosen.
C20_SpotLineOnNearestRow ==
    (call.kind = "render" /\ Len(call.strikes) > 0) =>
        LET row == CHOOSE i \in DOMAIN call.strikes :
                       call.strikes[i] = NearestStrike(call.strikes, call.spotPrice)
        IN  /\ call.out.closestRow = row
            /\ call.out.line.display = "block"
            /\ CellsTop(row) <= call.out.line.top
            /\ call.out.line.top < CellsTop(row) + RowHeight

\* C20, the choice of the row alone
C20_NearestRowChosen ==
    (call.kind = "render" /\ Len(call.strikes) > 0) =>
        call.strikes[call.out.closestRow] = NearestStrike(call.strikes, call.spotPrice)

\* The containers the last pageRenderer call or store update has touched
PageContainers == Range(page.root) \cup Range(page.removed)

\* C21: for a block container the only lifecycle transitions are Unmounted ->
\* Mounted (mount), Mounted/Updated -> Updated (update) and -> Unmounted
\* (teardown): update is never invoked on a container that was not mounted or
\* after the page was cleaned up, and teardown leaves the container empty.
C21_Lifecycle ==
    /\ \A i \in DOMAIN page.log :
            /\ page.log[i].op = "mount"  => page.log[i].was = "created"
            /\ page.log[i].op = "update" => page.log[i].was \in {"mounted", "updated"}
            /\ page.log[i].op # "threw"
    /\ \A container \in Range(page.removed) :
            container.life = "unmounted" /\ container.html.kind = "empty"

\* C21, the part about updates alone
C21_UpdateOnlyMounted ==
    \A i \in DOMAIN page.log :
        page.log[i].op = "update" => page.log[i].was \in {"mounted", "updated"}

\* C21, the part about teardown alone
C21_TeardownEmpties ==
    \A container \in Range(page.removed) :
        container.life = "unmounted" /\ container.html.kind = "empty"

\* C22: rendering is idempotent: rendering the same snapshot into a fresh
\* container or once more into the same one leaves the same output, whatever
\* was rendered before and however often.
C22_RenderIdempotent ==
    call.kind = "rendered" =>
        /\ call.container.innerHTML = renderInto(FreshContainer, call.data).innerHTML
        /\ renderInto(call.container, call.data).innerHTML = call.container.innerHTML

\* C22: a third render, of a snapshot with rows, into a container that held the
\* rows of another snapshot
C22_Witness ==
    /\ call.kind = "rendered"
    /\ call.renders = MaxRenders
    /\ call.data.kind = "snapshot" /\ Len(call.data.strikes) > 1
    /\ call.before.innerHTML.kind = "matrix-wrapper"
    /\ Len(call.before.innerHTML.rows) > 0
    /\ call.before.innerHTML # call.container.innerHTML

\* The exact quotient q has the value n / d, for d # 0
HasValue(q, n, d) == q.k = "q" /\ q.d # 0 /\ q.n * d = n * q.d

\* C23: linear(value, min, max) is 0 when max = min and otherwise
\* (value - min) / (max - min) clamped to [0, 1]; linear(50, 0, 100) = 0.5,
\* linear(150, 0, 100) = 1 and linear(-10, 0, 100) = 0.
C23_Linear ==
    (call.kind = "range" /\ call.strategy = "linear") =>
        LET n == call.val - call.min
            d == call.max - call.min
        IN  /\ d = 0 => HasValue(call.out, 0, 1)
            /\ (d # 0 /\ n * d < 0) => HasValue(call.out, 0, 1)
            /\ (d # 0 /\ n * d >= 0 /\ Abs(n) > Abs(d)) => HasValue(call.out, 1, 1)
            /\ (d # 0 /\ n * d >= 0 /\ Abs(n) <= Abs(d)) => HasValue(call.out, n, d)
            /\ (call.val = 50 /\ call.min = 0 /\ call.max = 100) => HasValue(call.out, 1, 2)
            /\ (call.val = 150 /\ call.min = 0 /\ call.max = 100) => HasValue(call.out, 1, 1)
            /\ (call.val = -10 /\ call.min = 0 /\ call.max = 100) => HasValue(call.out, 0, 1)

\* C23: the first documented example, linear(50, 0, 100)
C23_Witness ==
    /\ call.kind = "range" /\ call.strategy = "linear"
    /\ call.val = 50 /\ call.min = 0 /\ call.max = 100
    /\ HasValue(call.out, 1, 2)

\* A response to GET /:asset/gex/strikes for a known asset and a mode that is
\* absent or a string other than 'cumulative' and 'all'
OtherModeResponse ==
    /\ call.kind = "request"
    /\ call.request.route = "gex_strikes"
    /\ validateAsset(AssetOf(call.request))
    /\ call.request.mode \notin {"cumulative", "all"}
    /\ call.response.status # 0

\* The response is no error, or an error the mode has no part in: the missing
\* dates parameter or the failed query
NoErrorFromMode ==
    /\ call.response.status \in {200, 400, 500}
    /\ call.response.status = 400 => Len(call.request.dates) = 0
    /\ call.response.status = 500 => call.response.body.error = "SQLITE_ERROR"

\* The rows of the body come from the per-date table for the dates of the request
PerDateRows ==
    /\ call.response.body.strikes.table = "Options_Greeks_By_Strike"
    /\ call.response.body.strikes.params =
           [i \in DOMAIN call.request.dates |-> Trim(call.request.dates[i])]

CacheRead == call.kind = "request" /\ call.get.key # ""

\* C25: cacheGet(key, ttl) returns the value of the latest cacheSet(key, value)
\* when at most ttl milliseconds have passed since that cacheSet, and otherwise
\* returns null and removes the entry; so an endpoint never serves a cached
\* response older than its TTL, nor one stored under a different key.
C25_FixedTtlCache ==
    CacheRead =>
        IF call.get.latest.ts >= 0 /\ call.at - call.get.latest.ts <= call.get.ttlMs
        THEN call.get.value = call.get.latest.value
        ELSE call.get.value = Null /\ ~call.get.kept

\* C25, the part about what is served alone: a value cacheGet returns is the one
\* of the latest cacheSet of its key and no older than the ttl of the call
C25_NeverStale ==
    (CacheRead /\ call.get.value # Null) =>
        /\ call.get.latest.ts >= 0
        /\ call.get.value = call.get.latest.value
        /\ call.at - call.get.latest.ts <= call.get.ttlMs

\* C26: between mount and unmount of a gexMatrix container the auto-scroll to
\* the spot row (scrollToSpot) runs at most once, also when update is called
\* again before the animation-frame callback of an earlier render has run.
C26_ScrollsAtMostOnce ==
    \A container \in PageContainers : container.scrolls <= 1

\* The flag that suppresses the auto-scroll is only set by the callback itself
C26_FlagSetByCallback ==
    \A container \in PageContainers :
        container.hasInitialScroll <=> container.scrolls >= 1

\* C27: updatePage updates every block container with the same layout item
\* (block definition and ticker) that it was mounted with by loadPage, also
\* when some layout item names a block that is not registered and therefore got
\* no container.
C27_UpdatedWithMountedItem ==
    (call # NoCall /\ call.kind = "page" /\ call.op = "updatePage")
        => \A i \in DOMAIN call.log :
              LET container == CHOOSE c \in Range(call.root) : c.id = call.log[i].container
              IN  call.layout[call.log[i].item] = call.layout[container.item]

\* With every layout item registered the containers and the layout items have
\* the same indices, and each update is made with the item of the mount
C27_AllRegistered ==
    (call # NoCall /\ call.kind = "page" /\ call.op = "updatePage"
        /\ \A i \in DOMAIN call.layout : getBlock(call.layout[i].id) # NoBlock)
        => \A i \in DOMAIN call.log :
              LET container == CHOOSE c \in Range(call.root) : c.id = call.log[i].container
              IN  call.log[i].item = container.item

\* The last state a listener received in the round
LastReceived(listener) ==
    LET own == SelectSeq(round.calls, LAMBDA made : made.listener = listener)
    IN  own[Len(own)].state

\* A round in which a listener called store.setState
ReentrantRound ==
    /\ round.kind = "reentrant"
    /\ \E i \in DOMAIN round.calls : round.calls[i].depth > 1

\* C28: when a listener calls store.setState during a notification round,
\* every subscribed listener is still notified, and once the outermost setState
\* returns the last state each listener received is the store's current state.
C28_ReentrantRound ==
    ReentrantRound
        => \A listener \in Range(round.registered) :
              /\ \E i \in DOMAIN round.calls : round.calls[i].listener = listener
              /\ round.outcome = "returned" => LastReceived(listener) = state

\* When no listener throws, every listener is notified and ends on the current
\* state, although the listeners called before the re-entrant one in the outer
\* round are called again only by the inner round
C28_WhenNoListenerThrows ==
    (ReentrantRound /\ round.outcome = "returned")
        => \A listener \in Range(round.registered) :
              /\ \E i \in DOMAIN round.calls : round.calls[i].listener = listener
              /\ LastReceived(listener) = state

\* A re-entrant round that returned with a listener called after the inner
\* round by the outer one
C28_OuterAfterInner ==
    /\ ReentrantRound
    /\ round.outcome = "returned"
    /\ \E i \in DOMAIN round.calls :
          /\ round.calls[i].depth = 1
          /\ \E j \in 1..(i - 1) : round.calls[j].depth > 1

\* C29: after any sequence of pageRenderer.initPage and pageRenderer.cleanup
\* calls, pageRenderer holds at most one store subscription, and it belongs to
\* the most recently initialised page; after cleanup it holds none, so a store
\* update never triggers updatePage for a page that was replaced or cleaned up.
C29_OneSubscription ==
    /\ Cardinality(page.subscriptions) <= 1
    /\ page.subscriptions = IF page.activePageConfig = NoPage THEN {} ELSE {page.generation}
    /\ page.unsubscribe = IF page.activePageConfig = NoPage THEN 0 ELSE page.generation
    /\ page.op = "setState"
          => /\ page.activePageConfig = NoPage => page.log = <<>>
             /\ \A i \in DOMAIN page.log :
                   /\ page.log[i].op = "update"
                   /\ page.log[i].container[1] = page.generation
                   /\ \A j \in DOMAIN page.log :
                         page.log[i].container = page.log[j].container => i = j

\* A store update that reached the page after another page had been replaced
\* by it
C29_Witness ==
    /\ page.generation >= 2
    /\ page.op = "setState"
    /\ Len(page.log) > 0

\* A store update after cleanup: no page is updated
C29_UpdateAfterCleanup ==
    /\ page.generation >= 1
    /\ page.activePageConfig = NoPage
    /\ page.op = "setState"

\* The promise of tryListen was resolved or rejected
C30_Settled == listen.status \in {"resolved", "rejected"}

\* The ports tried so far: those of buildPorts in list order, the command-line
\* port first, none twice, one server at a time; a next port only after
\* EADDRINUSE or EACCES; resolved with the server of the first port that
\* listens; 'No free ports' once every candidate failed; any other error
\* rejects at once
C30_Attempts ==
    listen.status # "none"
        => /\ listen.tried = SubSeq(listen.ports, 1, Len(listen.tried))
           /\ \A j, k \in DOMAIN listen.tried : listen.tried[j] = listen.tried[k] => j = k
           /\ listen.argPort # 0 => listen.tried[1] = listen.argPort
           /\ Range(PreferredPorts) \cup Range(ScanPorts) \cup {0} \cup ({listen.argPort} \ {0})
                 = Range(listen.ports)
           /\ Cardinality(listen.open) <= 1
           /\ \A k \in 1..(Len(listen.tried) - 1) : listen.errors[k] = "busy"
           /\ listen.status = "resolved"
                 => /\ listen.result = [server |-> listen.tried[Len(listen.tried)]]
                    /\ listen.open = {listen.result.server}
                    /\ Len(listen.errors) = Len(listen.tried) - 1
           /\ (listen.status = "rejected" /\ listen.result.error = "No free ports")
                 <=> (listen.status # "timer" /\ listen.tried = listen.ports
                         /\ Len(listen.errors) = Len(listen.ports)
                         /\ \A k \in DOMAIN listen.errors : listen.errors[k] = "busy")
           /\ (Len(listen.errors) > 0 /\ listen.errors[Len(listen.errors)] # "busy")
                 => (listen.status = "rejected"
                        /\ listen.result.error = listen.errors[Len(listen.errors)])
           /\ listen.status # "threw"

\* C30: tryListen tries the candidate ports of buildPorts in list order (the
\* command-line port first, no port twice), one at a time; it resolves with the
\* server of the first port that starts listening, moves on to the next port
\* only after an EADDRINUSE or EACCES error, rejects with 'No free ports' once
\* every candidate has failed and rejects immediately on any other error; it
\* always settles.
C30_TryListen == []C30_Attempts /\ <>C30_Settled

\* Started with a command-line port that is also a port of the list, the
\* promise resolved with the server of a later port after that port had been
\* passed
C30_Witness ==
    /\ listen.status = "resolved"
    /\ listen.argPort = 9001
    /\ \E k \in DOMAIN listen.ports : k > 4 /\ listen.ports[k] = listen.result.server
                                         /\ listen.result.server > listen.argPort

\* Every candidate failed
C30_NoFreePorts ==
    /\ listen.status = "rejected"
    /\ listen.result.error = "No free ports"

====
